---- MODULE Spec2Model ----
(***************************************************************************)
(* Acquisition pipeline of fedrag: RateLimiter (utils/rate_limiter.py),    *)
(* retry_with_backoff (utils/retry.py), DocumentStore                      *)
(* (storage/document_store.py) and the scrapers with their orchestrator    *)
(* (scrapers/).                                                            *)
(*                                                                         *)
(* Each component has its own specification over the shared variables:     *)
(*   SpecRateLimiter  callers of RateLimiter.acquire()/release()           *)
(*   SpecRetry        one call of a function wrapped by retry_with_backoff *)
(*   SpecStore        save_document / get_existing_urls / load_documents / *)
(*                    count_documents / get_stats called one after another *)
(*                    on one DocumentStore                                 *)
(*   SpecStoreConc    concurrent writers inside save_document's append     *)
(*   SpecCrawl        ScrapingOrchestrator.scrape_all driving the scrapers *)
(*                    and the store (scrapers/orchestrator.py, base.py)    *)
(*   SpecCrawlFair    the same, with progress                              *)
(*   SpecFetch        one BaseScraper.fetch_page call: the retry wrapper   *)
(*                    around a body guarded by the RateLimiter             *)
(*   SpecDocument     calls of FedDocument.create (models/document.py)     *)
(*   SpecRetryFair    SpecRetry with progress                              *)
(*   SpecRateLimiterCancel  the rate limiter with callers whose task is    *)
(*                    cancelled                                            *)
(*   SpecRateLimiterFair    the rate limiter under fair scheduling         *)
(*   SpecEnum         get_document_urls of the testimony and the speech    *)
(*                    scraper (scrapers/testimony.py, speeches.py)         *)
(*   SpecRunAll       scrape_all over the four categories, scrape_type     *)
(*                    being a call that returns a count or raises          *)
(* A specification leaves the variables of the other components unchanged. *)
(***************************************************************************)
EXTENDS Integers, Sequences, FiniteSets, TLC

\* ------------------------------------------------------------------------
\* Bounds of the model
\* ------------------------------------------------------------------------
\* callers of the rate limiter (more than max_concurrent, so the gate blocks)
NumCallers == 4
\* the monotonic clock stops advancing here
MaxClock == 9
\* clock ticks per second (time.monotonic() is modelled in ticks)
TicksPerSecond == 4
\* pieces in which one serialized record can reach the file
ChunksPerRecord == 2
\* appends that fail (storage errors) in one run of the store
MaxFaults == 1
\* concurrent writers
NumWriters == 2
\* years in the range of a crawl, each with one document per category
NumYears == 2
\* calls of scrape_all on one orchestrator
MaxRuns == 2
\* the longest doc_types list scrape_all is called with
MaxListLen == 2

\* ------------------------------------------------------------------------
\* RateLimiter (utils/rate_limiter.py)
\* ------------------------------------------------------------------------
VARIABLES
    sem_value,          \* self._semaphore._value: free concurrency slots
    lock_owner,         \* self._lock: the caller inside `async with self._lock`, or NoCaller
    last_request_time,  \* self._last_request_time
    clock,              \* time.monotonic(), in ticks
    rl_pc,              \* per caller: position inside acquire() / the guarded operation
    rl_now,             \* per caller: the local `now` of line 42 while it sleeps (else 0)
    grants              \* history: the values stored to _last_request_time, in grant order

rlVars == <<sem_value, lock_owner, last_request_time, clock, rl_pc, rl_now, grants>>

\* retry_with_backoff (utils/retry.py): one call of the wrapper
VARIABLES
    rt_tuning,          \* the decorator arguments max_retries, base_delay, max_delay, jitter
    rt_pc,              \* "call": about to invoke func; "sleep": in asyncio.sleep(delay); "done"
    attempt,            \* the loop variable of `for attempt in range(max_retries + 1)`
    last_exception,     \* the local last_exception
    rt_result,          \* how the wrapper ended: returned, or raised an error
    rt_err,             \* history: the error raised by the most recent invocation of func
    rt_calls,           \* history: number of invocations of func
    rt_sleeps           \* history: the asyncio.sleep calls made, in order

rtVars == <<rt_tuning, rt_pc, attempt, last_exception, rt_result, rt_err, rt_calls, rt_sleeps>>

\* DocumentStore (storage/document_store.py)
VARIABLES
    st_files,           \* per category: the content of its JSONL file, in pieces of records
    url_cache,          \* self._url_cache
    st_last,            \* history: the last call made on the store and what it returned
    st_faults,          \* history: number of appends that failed
    st_accepted         \* history, per category: save_document calls that returned True

stVars == <<st_files, url_cache, st_last, st_faults, st_accepted>>

\* writers running save_document concurrently
VARIABLES
    w_pc,               \* per writer: position inside save_document
    w_doc,              \* per writer: the document it saves
    w_buf,              \* per writer: what its file object still holds in its write buffer
    w_ret,              \* per writer: the return value of save_document
    flock_owner         \* per category file: the writer holding flock(LOCK_EX), or NoWriter

wrVars == <<w_pc, w_doc, w_buf, w_ret, flock_owner>>

\* one ScrapingOrchestrator (scrapers/orchestrator.py) driving its scrapers
VARIABLES
    cr_world,           \* the site: what every index page and document page answers
    cr_request,         \* the doc_types argument of scrape_all
    cr_run,             \* number of scrape_all calls started on this orchestrator
    cr_pc,              \* position of the task running scrape_all
    cr_todo,            \* scrape_all: the categories of types_to_scrape not yet run
    cr_type,            \* scrape_type: doc_type
    cr_index,           \* get_document_urls: the index pages not yet fetched
    cr_links,           \* get_document_urls: links of the current index page not yet yielded
    cr_url,             \* the page whose fetch_page call is in flight
    cr_doc,             \* the document scrape_all (base) yielded to scrape_type
    existing_urls,      \* BaseScraper.existing_urls of the current scraper
    cr_count,           \* scrape_type: the local count
    cr_results,         \* scrape_all: the dict results
    cr_session,         \* per category: the scraper's aiohttp session in this scrape_all call
    cr_attempted,       \* history: the URLs scrape_document was called with in this scrape_type
    cr_accepted,        \* history: save_document calls that returned True in this scrape_type
    cr_files0,          \* history: the files when this scrape_all call started
    cr_raised_by,       \* history: the call whose exception ended scrape_all
    cr_inflight,        \* the URLs with a fetch_page call that was issued and has not ended
    cr_emitted          \* history: the enumerated URLs whose document was yielded in this scrape_type

crVars == <<cr_world, cr_request, cr_run, cr_pc, cr_todo, cr_type, cr_index, cr_links,
            cr_url, cr_doc, existing_urls, cr_count, cr_results, cr_session,
            cr_attempted, cr_accepted, cr_files0, cr_raised_by, cr_inflight, cr_emitted>>

\* FedDocument.create (models/document.py)
VARIABLES
    fd_last,            \* the document the last create call returned
    fd_prev             \* the document of the create call before it

fdVars == <<fd_prev, fd_last>>

\* get_document_urls of TestimonyScraper / SpeechesScraper
VARIABLES
    en_scraper,         \* the scraper's doc_type
    en_world,           \* per index URL: what fetch_page ends with
    en_pc,              \* position in get_document_urls
    en_year,            \* the loop variable year
    en_template,        \* position in TESTIMONY_INDEX_TEMPLATES
    en_html,            \* the local html: NoHtml, or the page fetched
    en_links,           \* links of the page not yet yielded
    en_fetched,         \* history: the index URLs fetch_page was called with
    en_yielded          \* history: the URLs yielded

enVars == <<en_scraper, en_world, en_pc, en_year, en_template, en_html, en_links,
            en_fetched, en_yielded>>

\* ScrapingOrchestrator.scrape_all, with scrape_type as a call
VARIABLES
    ra_request,         \* the doc_types argument
    ra_pc,              \* position in scrape_all
    ra_todo,            \* types_to_scrape not yet iterated
    ra_results,         \* the dict results
    ra_ran              \* history: the categories scrape_type was called with

raVars == <<ra_request, ra_pc, ra_todo, ra_results, ra_ran>>

vars == <<rlVars, rtVars, stVars, wrVars, crVars, fdVars, enVars, raVars>>

Callers == 1..NumCallers
NoCaller == 0

Writers == 1..NumWriters
NoWriter == 0

\* ScraperConfig.requests_per_second / RateLimiter.__init__ default
rate == 2
\* ScraperConfig.max_concurrent_requests / RateLimiter.__init__ default
max_concurrent == 3
\* self.min_interval = 1.0 / rate, in ticks
min_interval == TicksPerSecond \div rate

\* asyncio.Semaphore.locked(): no free slot
SemaphoreLockedNever(v) == FALSE
SemaphoreLocked(v) == v = 0

\* lines 43-46: the time still to wait before the next start is allowed
wait_time_none(now, last) == 0
wait_time(now, last) ==
    LET time_since_last == now - last
    IN  IF time_since_last < min_interval
        THEN min_interval - time_since_last
        ELSE 0

\* line 49: the value recorded as the new last start (time.monotonic() re-read)
RecordedStartStale(now_read, now_after) == now_read
RecordedStart(now_read, now_after) == now_after

\* the variables a RateLimiter step leaves alone
rlFrame == <<rtVars, stVars, wrVars, crVars, fdVars, enVars, raVars>>

RLInit ==
    /\ sem_value = max_concurrent
    /\ lock_owner = NoCaller
    /\ last_request_time = 0
    /\ clock \in 0..min_interval
    /\ rl_pc = [c \in Callers |-> "idle"]
    /\ rl_now = [c \in Callers |-> 0]
    /\ grants = <<>>

\* the rate limiter is not used
RLIdle ==
    /\ sem_value = max_concurrent
    /\ lock_owner = NoCaller
    /\ last_request_time = 0
    /\ clock = 0
    /\ rl_pc = [c \in Callers |-> "idle"]
    /\ rl_now = [c \in Callers |-> 0]
    /\ grants = <<>>

\* a caller enters acquire() (via `async with self.rate_limiter`)
RLCall(c) ==
    /\ rl_pc[c] = "idle"
    /\ rl_pc' = [rl_pc EXCEPT ![c] = "wait_sem"]
    /\ UNCHANGED <<sem_value, lock_owner, last_request_time, clock, rl_now, grants>>
    /\ UNCHANGED rlFrame

\* line 39: await self._semaphore.acquire()
RLGate(c) ==
    /\ rl_pc[c] = "wait_sem"
    /\ ~SemaphoreLocked(sem_value)
    /\ sem_value' = sem_value - 1
    /\ rl_pc' = [rl_pc EXCEPT ![c] = "wait_lock"]
    /\ UNCHANGED <<lock_owner, last_request_time, clock, rl_now, grants>>
    /\ UNCHANGED rlFrame

\* lines 41-49 up to the first suspension: take the interval lock, read the
\* clock; either sleep for wait_time or record the start and leave the lock
RLInterval(c) ==
    /\ rl_pc[c] = "wait_lock"
    /\ lock_owner = NoCaller
    /\ LET now == clock
           w == wait_time(now, last_request_time)
       IN  IF w > 0
           THEN /\ lock_owner' = c
                /\ rl_now' = [rl_now EXCEPT ![c] = now]
                /\ rl_pc' = [rl_pc EXCEPT ![c] = "sleeping"]
                /\ UNCHANGED <<last_request_time, grants>>
           ELSE /\ last_request_time' = RecordedStart(now, clock)
                /\ grants' = Append(grants, RecordedStart(now, clock))
                /\ rl_pc' = [rl_pc EXCEPT ![c] = "in_flight"]
                /\ UNCHANGED <<lock_owner, rl_now>>
    /\ UNCHANGED <<sem_value, clock>>
    /\ UNCHANGED rlFrame

\* lines 41-49: the owner of the interval lock once `async with self._lock`
\* is left
lock_after_exit_kept(c) == c
lock_after_exit(c) == NoCaller

\* lines 47-49: asyncio.sleep(wait_time) is over (not before it is due);
\* record the start time and release the interval lock
RLWake(c) ==
    /\ rl_pc[c] = "sleeping"
    /\ lock_owner = c
    /\ clock >= rl_now[c] + wait_time(rl_now[c], last_request_time)
    /\ last_request_time' = RecordedStart(rl_now[c], clock)
    /\ grants' = Append(grants, RecordedStart(rl_now[c], clock))
    /\ lock_owner' = lock_after_exit(c)
    /\ rl_pc' = [rl_pc EXCEPT ![c] = "in_flight"]
    /\ rl_now' = [rl_now EXCEPT ![c] = 0]
    /\ UNCHANGED <<sem_value, clock>>
    /\ UNCHANGED rlFrame

\* lines 51-53: release(), called by __aexit__ (lines 60-62)
Release(c) ==
    /\ rl_pc[c] = "in_flight"
    /\ sem_value' = sem_value + 1
    /\ rl_pc' = [rl_pc EXCEPT ![c] = "idle"]
    /\ UNCHANGED <<lock_owner, last_request_time, clock, rl_now, grants>>

\* lines 51-53 / 60-62: release() after the guarded operation
RLRelease(c) ==
    /\ Release(c)
    /\ UNCHANGED rlFrame

\* the monotonic clock advances
RLTick ==
    /\ clock < MaxClock
    /\ clock' = clock + 1
    /\ UNCHANGED <<sem_value, lock_owner, last_request_time, rl_pc, rl_now, grants>>
    /\ UNCHANGED rlFrame

\* the positions at which a caller's task was cancelled
CancelledPcs == {"cancelled_at_gate", "cancelled_at_lock", "cancelled_in_sleep",
                 "cancelled_in_flight"}

\* the task of caller c is cancelled at one of its awaits: CancelledError is
\* raised at line 39 (no slot taken), at line 41 (waiting for the lock, the
\* slot taken), at line 47 (asleep; `async with self._lock` releases the
\* lock), or in the body of `async with self.rate_limiter` (base.py:84-86).
\* __aexit__ (lines 60-62) runs only in the last case: in the others the
\* error leaves __aenter__ (lines 55-58), which has no handler.
RLCancel(c) ==
    /\ \/ /\ rl_pc[c] = "wait_sem"
          /\ SemaphoreLocked(sem_value)
          /\ rl_pc' = [rl_pc EXCEPT ![c] = "cancelled_at_gate"]
          /\ UNCHANGED <<sem_value, lock_owner, rl_now>>
       \/ /\ rl_pc[c] = "wait_lock"
          /\ lock_owner # NoCaller
          /\ rl_pc' = [rl_pc EXCEPT ![c] = "cancelled_at_lock"]
          /\ UNCHANGED <<sem_value, lock_owner, rl_now>>
       \/ /\ rl_pc[c] = "sleeping"
          /\ lock_owner = c
          /\ lock_owner' = lock_after_exit(c)
          /\ rl_now' = [rl_now EXCEPT ![c] = 0]
          /\ rl_pc' = [rl_pc EXCEPT ![c] = "cancelled_in_sleep"]
          /\ UNCHANGED sem_value
       \/ /\ rl_pc[c] = "in_flight"
          /\ sem_value' = sem_value + 1
          /\ rl_pc' = [rl_pc EXCEPT ![c] = "cancelled_in_flight"]
          /\ UNCHANGED <<lock_owner, rl_now>>
    /\ UNCHANGED <<last_request_time, clock, grants>>
    /\ UNCHANGED rlFrame

\* the callers inside acquire()
Acquiring == {c \in Callers : rl_pc[c] \in {"wait_sem", "wait_lock", "sleeping"}}

\* the time at which the sleep of a sleeping caller is over
SleepDue(c) == rl_now[c] + wait_time(rl_now[c], last_request_time)

\* the number of acquire() calls for which the clock has room
MaxCalls == MaxClock \div min_interval

\* a caller enters acquire(), while the clock has room for its start
RLCallBounded(c) ==
    /\ Len(grants) + Cardinality(Acquiring) < MaxCalls
    /\ RLCall(c)

\* time passes while a sleeper waits for it
RLTickNeeded ==
    /\ \E c \in Callers : rl_pc[c] = "sleeping" /\ clock < SleepDue(c)
    /\ RLTick
\* ------------------------------------------------------------------------
\* retry_with_backoff (utils/retry.py)
\* ------------------------------------------------------------------------
\* defaults of the decorator (fetch_page and download_pdf use them as they are)
default_max_retries == 5
default_base_delay == 5
default_max_delay == 300

DefaultTuning ==
    [max_retries |-> default_max_retries, base_delay |-> default_base_delay,
     max_delay |-> default_max_delay, jitter |-> TRUE]

\* the decorator arguments of the modelled calls: the defaults, and a tuning
\* whose max_delay cuts the exponential growth short
Tunings ==
    {DefaultTuning,
     [max_retries |-> 3, base_delay |-> 5, max_delay |-> 10, jitter |-> TRUE],
     [max_retries |-> 2, base_delay |-> 5, max_delay |-> 300, jitter |-> FALSE]}

\* Exceptions func can raise.  cls is the most derived class:
\*   RateLimitError(RetryableError)            carries retry_after
\*   ClientResponseError(aiohttp.ClientError)  carries status
\*   ClientConnectionError(aiohttp.ClientError), TimeoutError (asyncio)
\*   RuntimeError                              not in retryable_exceptions
\* at is the number of the invocation that raised it.
NoError == [cls |-> "None", status |-> 0, retry_after |-> 0, at |-> 0]

\* Retry-After values a 429 response carries (base.py:88; 60 when absent)
RetryAfterValues == {10, 60}
\* statuses of ClientResponseError: fetch_page lines 92-98 (4xx) and
\* raise_for_status (5xx); a 429 always becomes RateLimitError (lines 87-89)
ResponseStatuses == {404, 503}

ErrorsAt(n) ==
    {[cls |-> "RateLimitError", status |-> 429, retry_after |-> d, at |-> n] :
        d \in RetryAfterValues}
    \cup {[cls |-> "ClientResponseError", status |-> st, retry_after |-> 0, at |-> n] :
        st \in ResponseStatuses}
    \cup {[cls |-> c, status |-> 0, retry_after |-> 0, at |-> n] :
        c \in {"ClientConnectionError", "TimeoutError", "RuntimeError"}}

\* `except RateLimitError` (line 60)
IsRateLimitError(e) == e.cls = "RateLimitError"
\* `except aiohttp.ClientResponseError` (line 70)
IsClientResponseError(e) == e.cls = "ClientResponseError"
\* `except retryable_exceptions` (line 88): ClientError, TimeoutError, RetryableError
IsRetryableExceptionAny(e) == TRUE
IsRetryableException(e) ==
    e.cls \in {"RateLimitError", "ClientResponseError", "ClientConnectionError", "TimeoutError"}

\* line 72: 4xx client errors are definitive
IsClientStatusNever(st) == FALSE
IsClientStatus(st) == 400 <= st /\ st < 500

\* lines 61, 75, 89: `if attempt == max_retries`
IsLastAttempt(a, t) == a = t.max_retries

\* line 63: delay = e.retry_after (seconds)
rate_limit_delay_backoff(e, a, t) ==
    IF t.base_delay * (2 ^ a) < t.max_delay THEN t.base_delay * (2 ^ a) ELSE t.max_delay
rate_limit_delay(e, a, t) == e.retry_after

\* lines 78, 92: delay = min(base_delay * (2 ** attempt), max_delay) (seconds)
backoff_delay_linear(a, t) ==
    IF t.base_delay * (a + 1) < t.max_delay THEN t.base_delay * (a + 1) ELSE t.max_delay
backoff_delay(a, t) ==
    IF t.base_delay * (2 ^ a) < t.max_delay THEN t.base_delay * (2 ^ a) ELSE t.max_delay

\* lines 79-80, 93-94: delay * (0.5 + random.random()); random() is in [0, 1),
\* the factor is drawn here in percent, from the ends of its range; the result is in hundredths of a second
JitterPercent == {50, 149}
Jittered(delay, t) ==
    IF t.jitter THEN {delay * pct : pct \in JitterPercent} ELSE {delay * 100}

\* the re-raise of lines 62, 73, 76, 90: the exception being handled
RaisedErrorPrevious(e, last) == IF last = NoError THEN e ELSE last
RaisedError(e, last) == e

\* the loop variable advances with each iteration
NextAttemptStuck(a) == a
NextAttempt(a) == a + 1

\* the variables a retry step leaves alone
rtFrame == <<rlVars, stVars, wrVars, crVars, fdVars, enVars, raVars>>

RTInit ==
    /\ rt_tuning \in Tunings
    /\ rt_pc = "call"
    /\ attempt = 0
    /\ last_exception = NoError
    /\ rt_result = [kind |-> "none", err |-> NoError]
    /\ rt_err = NoError
    /\ rt_calls = 0
    /\ rt_sleeps = <<>>

\* the wrapper is not running
RTIdle ==
    /\ rt_tuning = DefaultTuning
    /\ rt_pc = "done"
    /\ attempt = 0
    /\ last_exception = NoError
    /\ rt_result = [kind |-> "none", err |-> NoError]
    /\ rt_err = NoError
    /\ rt_calls = 0
    /\ rt_sleeps = <<>>

\* the wrapper ends by raising e
RTRaise(e) ==
    /\ rt_pc' = "done"
    /\ rt_result' = [kind |-> "raised", err |-> RaisedError(e, last_exception)]
    /\ UNCHANGED <<attempt, last_exception, rt_sleeps>>

\* the wrapper logs and enters asyncio.sleep(delay); pre is the delay in
\* seconds before jitter, delay the argument of sleep in hundredths
RTSleep(e, pre, delay) ==
    /\ rt_pc' = "sleep"
    /\ rt_sleeps' = Append(rt_sleeps, [err |-> e, attempt |-> attempt, pre |-> pre, delay |-> delay])
    /\ UNCHANGED <<attempt, last_exception, rt_result>>

\* the loop body is entered for attempt in range(max_retries + 1).  Every
\* iteration with attempt == max_retries returns or raises, so the loop never
\* runs out and lines 103-106 after it are not reached.
RTInLoop == rt_pc = "call" /\ attempt \in 0..rt_tuning.max_retries

\* lines 57-59: func returns
OnReturn ==
    /\ RTInLoop
    /\ rt_calls' = rt_calls + 1
    /\ rt_pc' = "done"
    /\ rt_result' = [kind |-> "returned", err |-> NoError]
    /\ UNCHANGED <<rt_tuning, attempt, last_exception, rt_err, rt_sleeps>>

\* lines 57-59: func returns, nothing else runs
RetryReturn ==
    /\ OnReturn
    /\ UNCHANGED rtFrame

\* lines 60-69: func raises RateLimitError
OnRateLimit ==
    /\ RTInLoop
    /\ \E e \in ErrorsAt(rt_calls + 1) :
        /\ IsRateLimitError(e)
        /\ rt_calls' = rt_calls + 1
        /\ rt_err' = e
        /\ IF IsLastAttempt(attempt, rt_tuning)
           THEN RTRaise(e)
           ELSE LET delay == rate_limit_delay(e, attempt, rt_tuning)
                IN  RTSleep(e, delay, delay * 100)
    /\ UNCHANGED rt_tuning

\* lines 60-69: func raises RateLimitError, nothing else runs
RetryOnRateLimit ==
    /\ OnRateLimit
    /\ UNCHANGED rtFrame

\* lines 70-87: func raises aiohttp.ClientResponseError
OnResponseError ==
    /\ RTInLoop
    /\ \E e \in ErrorsAt(rt_calls + 1) :
        /\ ~IsRateLimitError(e)
        /\ IsClientResponseError(e)
        /\ rt_calls' = rt_calls + 1
        /\ rt_err' = e
        /\ IF IsClientStatus(e.status) \/ IsLastAttempt(attempt, rt_tuning)
           THEN RTRaise(e)
           ELSE LET delay == backoff_delay(attempt, rt_tuning)
                IN  \E d \in Jittered(delay, rt_tuning) : RTSleep(e, delay, d)
    /\ UNCHANGED rt_tuning

\* lines 70-87: func raises aiohttp.ClientResponseError, nothing else runs
RetryOnResponseError ==
    /\ OnResponseError
    /\ UNCHANGED rtFrame

\* lines 88-101: func raises another of retryable_exceptions
OnRetryable ==
    /\ RTInLoop
    /\ \E e \in ErrorsAt(rt_calls + 1) :
        /\ ~IsRateLimitError(e)
        /\ ~IsClientResponseError(e)
        /\ IsRetryableException(e)
        /\ rt_calls' = rt_calls + 1
        /\ rt_err' = e
        /\ IF IsLastAttempt(attempt, rt_tuning)
           THEN RTRaise(e)
           ELSE LET delay == backoff_delay(attempt, rt_tuning)
                IN  \E d \in Jittered(delay, rt_tuning) : RTSleep(e, delay, d)
    /\ UNCHANGED rt_tuning

\* lines 88-101: func raises another of retryable_exceptions, nothing else runs
RetryOnRetryable ==
    /\ OnRetryable
    /\ UNCHANGED rtFrame

\* func raises an exception no except clause matches: it propagates
OnOther ==
    /\ RTInLoop
    /\ \E e \in ErrorsAt(rt_calls + 1) :
        /\ ~IsRateLimitError(e)
        /\ ~IsClientResponseError(e)
        /\ ~IsRetryableException(e)
        /\ rt_calls' = rt_calls + 1
        /\ rt_err' = e
        /\ rt_pc' = "done"
        /\ rt_result' = [kind |-> "raised", err |-> e]
        /\ UNCHANGED <<attempt, last_exception, rt_sleeps>>
    /\ UNCHANGED rt_tuning

\* func raises an exception no except clause matches: it propagates, nothing else runs
RetryOnOther ==
    /\ OnOther
    /\ UNCHANGED rtFrame

\* lines 68-69, 86-87, 100-101: the sleep ends, last_exception = e, next iteration
RetrySleepDone ==
    /\ rt_pc = "sleep"
    /\ last_exception' = rt_err
    /\ attempt' = NextAttempt(attempt)
    /\ rt_pc' = "call"
    /\ UNCHANGED <<rt_tuning, rt_result, rt_err, rt_calls, rt_sleeps>>
    /\ UNCHANGED rtFrame


\* ------------------------------------------------------------------------
\* BaseScraper.fetch_page (scrapers/base.py:69-102): retry_with_backoff()
\* around a body that runs inside `async with self.rate_limiter`
\* ------------------------------------------------------------------------
\* the caller of the scraper's RateLimiter that fetch_page is
Fetcher == 1

\* RateLimiter.__aexit__ (rate_limiter.py:60-62): release() is called
\* whatever exception (cls, or None) leaves the block
aexit_releases_on_success(cls) == cls = "None"
aexit_releases(cls) == TRUE

\* the `async with self.rate_limiter` block of base.py:84 is left
ExitRateLimiter(c, cls) ==
    IF aexit_releases(cls) THEN Release(c) ELSE UNCHANGED rlVars

\* the variables a fetch_page step leaves alone
ftFrame == <<stVars, wrVars, crVars, fdVars, enVars, raVars>>

\* the wrapper invokes fetch_page's body (retry.py:59), which enters
\* `async with self.rate_limiter` and with it acquire()
FetchAttempt ==
    /\ RTInLoop
    /\ RLCall(Fetcher)

\* the response was read, the block is left by `return` (base.py:100-102)
FetchReturns ==
    /\ rl_pc[Fetcher] = "in_flight"
    /\ OnReturn
    /\ ExitRateLimiter(Fetcher, "None")
    /\ UNCHANGED ftFrame

\* a 429: RateLimitError is raised inside the block (base.py:87-89)
FetchRateLimited ==
    /\ rl_pc[Fetcher] = "in_flight"
    /\ OnRateLimit
    /\ ExitRateLimiter(Fetcher, rt_err'.cls)
    /\ UNCHANGED ftFrame

\* a 4xx (base.py:92-98) or raise_for_status (base.py:100)
FetchResponseError ==
    /\ rl_pc[Fetcher] = "in_flight"
    /\ OnResponseError
    /\ ExitRateLimiter(Fetcher, rt_err'.cls)
    /\ UNCHANGED ftFrame

\* session.get or response.text() fails: connection error, timeout
FetchTransportError ==
    /\ rl_pc[Fetcher] = "in_flight"
    /\ OnRetryable
    /\ ExitRateLimiter(Fetcher, rt_err'.cls)
    /\ UNCHANGED ftFrame

\* self.session raises RuntimeError (base.py:62-67), inside the block
FetchOtherError ==
    /\ rl_pc[Fetcher] = "in_flight"
    /\ OnOther
    /\ ExitRateLimiter(Fetcher, rt_err'.cls)
    /\ UNCHANGED ftFrame
\* ------------------------------------------------------------------------
\* DocumentStore (storage/document_store.py)
\* ------------------------------------------------------------------------
\* DocType = Literal["statement", "minutes", "speech", "testimony"]
AllDocTypes == {"statement", "minutes", "speech", "testimony"}
\* the categories whose files are modelled (every category is handled alike)
DocTypes == {"statement", "speech"}

\* URLs as the scrapers hand them to FedDocument.create
RawUrls == {"https://fed.gov/a", "https://FED.gov/a", "https://fed.gov/b"}

\* the field `url: HttpUrl` (models/document.py:14) and str(doc.url):
\* validation normalises the URL, e.g. lower-cases the host
HttpUrl(raw) == IF raw = "https://FED.gov/a" THEN "https://fed.gov/a" ELSE raw

Urls == {HttpUrl(r) : r \in RawUrls}

\* FedDocument.create: the fields the store reads
FedDocumentCreate(raw, t) == [url |-> HttpUrl(raw), doc_type |-> t]

Docs == {FedDocumentCreate(r, t) : r \in RawUrls, t \in DocTypes}

\* doc.to_jsonl() + "\n" as the pieces in which it can reach the file; the
\* last piece ends with the newline
to_jsonl_unterminated(doc) ==
    [i \in 1..ChunksPerRecord |-> [doc |-> doc, part |-> IF i = ChunksPerRecord THEN 0 ELSE i]]
to_jsonl_line(doc) == [i \in 1..ChunksPerRecord |-> [doc |-> doc, part |-> i]]

\* `for line in f`: the file cut after every newline, an unterminated rest last
RECURSIVE SplitLines(_)
SplitLines(f) ==
    IF f = <<>> THEN <<>>
    ELSE LET ends == {i \in 1..Len(f) : f[i].part = ChunksPerRecord}
             n == IF ends = {} THEN Len(f)
                  ELSE CHOOSE i \in ends : \A j \in ends : i <= j
         IN  <<SubSeq(f, 1, n)>> \o SplitLines(SubSeq(f, n + 1, Len(f)))

\* FedDocument.from_jsonl(line) succeeds: the line is one whole record
Parses(line) ==
    /\ Len(line) = ChunksPerRecord
    /\ \A i \in 1..ChunksPerRecord : line[i].part = i /\ line[i].doc = line[1].doc

\* FedDocument.from_jsonl(line) for a line that parses
from_jsonl(line) == FedDocumentCreate(line[1].doc.url, line[1].doc.doc_type)

\* load_documents (lines 136-145): the documents of the lines that parse, in
\* file order; a line that does not parse is logged and passed over
RECURSIVE ParsedDocs(_)
ParsedDocs(lines) ==
    IF lines = <<>> THEN <<>>
    ELSE (IF Parses(Head(lines)) THEN <<from_jsonl(Head(lines))>> ELSE <<>>)
         \o ParsedDocs(Tail(lines))

\* StorageConfig.get_file_path (config.py:73-81): the file of a category
get_file_path_shared(t) == "statement"
get_file_path(t) == t

\* open(file_path, "a") (line 106): what is written goes to the end of the file
AppendToFileFront(f, data) == data \o f
AppendToFile(f, data) == f \o data

\* load_documents(doc_type) (lines 122-145), read to its end: the file is
\* opened and read anew by every call
load_documents(files, t) == ParsedDocs(SplitLines(files[get_file_path(t)]))

\* _load_urls (lines 39-71): the URLs of the lines that parse
load_urls(f) ==
    LET lines == SplitLines(f)
    IN  {from_jsonl(lines[i]).url : i \in {j \in DOMAIN lines : Parses(lines[j])}}

\* self._url_cache, a dict: a category is absent until its first load
NotLoaded == [loaded |-> FALSE, urls |-> {}]

\* _ensure_url_cache (lines 33-37)
ensure_url_cache(cache, files, t) ==
    IF cache[t].loaded THEN cache
    ELSE [cache EXCEPT ![t] = [loaded |-> TRUE, urls |-> load_urls(files[get_file_path(t)])]]

\* lines 99-102: the duplicate check against the cache
IsDuplicateNever(url, cached) == FALSE
IsDuplicate(url, cached) == url \in cached

\* lines 113-114 and 118-120: the cache entry after the append ended
\* (written: the whole record reached the file, no exception)
CacheAfterAppendEager(cached, url, written) == cached \cup {url}
CacheAfterAppend(cached, url, written) == IF written THEN cached \cup {url} ELSE cached

\* the variables a store step leaves alone
stFrame == <<rlVars, rtVars, wrVars, crVars, fdVars, enVars, raVars>>

NoDoc == [url |-> "", doc_type |-> ""]
NoCall == [op |-> "none", doc |-> NoDoc, doc_type |-> "", ret |-> FALSE, urls |-> {}, count |-> 0,
           docs |-> <<>>, stats |-> <<>>]

STInit ==
    /\ st_files = [t \in DocTypes |-> <<>>]
    /\ url_cache = [t \in DocTypes |-> NotLoaded]
    /\ st_last = NoCall
    /\ st_faults = 0
    /\ st_accepted = [t \in DocTypes |-> 0]

\* save_document(doc) (lines 84-120), run to completion.  k is the number of
\* pieces of the record that reach the file when the append is tried: all of
\* them, or fewer when open, flock, write or the flush at close raises (then
\* the with-block is left by the exception and line 118 returns False).
\* A failure is one that keeps the record from being written in full; an
\* error reported only after the last byte is in the file is not modelled.
\* k is not used when the save is rejected as a duplicate.
SaveDocument(doc, k) ==
    LET t == doc.doc_type
        url_str == doc.url
        cache1 == ensure_url_cache(url_cache, st_files, t)
        line == to_jsonl_line(doc)
        written == k = ChunksPerRecord
    IN  IF IsDuplicate(url_str, cache1[t].urls)
        THEN /\ k = ChunksPerRecord
             /\ url_cache' = cache1
             /\ st_last' = [NoCall EXCEPT !.op = "save", !.doc = doc, !.ret = FALSE]
             /\ UNCHANGED <<st_files, st_faults, st_accepted>>
        ELSE /\ ~written => st_faults < MaxFaults
             /\ st_faults' = IF written THEN st_faults ELSE st_faults + 1
             /\ st_accepted' = [st_accepted EXCEPT ![t] = IF written THEN @ + 1 ELSE @]
             /\ st_files' = [st_files EXCEPT
                    ![get_file_path(t)] = AppendToFile(@, SubSeq(line, 1, k))]
             /\ url_cache' = [cache1 EXCEPT
                    ![t].urls = CacheAfterAppend(@, url_str, written)]
             /\ st_last' = [NoCall EXCEPT !.op = "save", !.doc = doc, !.ret = written]

StoreSave ==
    /\ \E doc \in Docs, k \in 0..ChunksPerRecord : SaveDocument(doc, k)
    /\ UNCHANGED stFrame

\* get_existing_urls(doc_type) (lines 73-82): a copy of the cached set
GetExistingUrls(t) ==
    LET cache1 == ensure_url_cache(url_cache, st_files, t)
    IN  /\ url_cache' = cache1
        /\ st_last' = [NoCall EXCEPT !.op = "get_existing_urls", !.doc_type = t,
                                     !.urls = cache1[t].urls]
        /\ UNCHANGED <<st_files, st_faults, st_accepted>>

StoreGetExistingUrls ==
    /\ \E t \in DocTypes : GetExistingUrls(t)
    /\ UNCHANGED stFrame

\* load_documents(doc_type) (lines 122-145), iterated to its end
StoreLoadDocuments ==
    /\ \E t \in DocTypes :
        st_last' = [NoCall EXCEPT !.op = "load_documents", !.doc_type = t,
                                  !.docs = load_documents(st_files, t)]
    /\ UNCHANGED <<st_files, url_cache, st_faults, st_accepted>>
    /\ UNCHANGED stFrame

\* count_documents (line 156): the size of the category's cached URL set
count_documents_lines(cache, files, t) == Len(SplitLines(files[get_file_path(t)]))
count_documents(cache, files, t) == Cardinality(cache[t].urls)

\* count_documents(doc_type) (lines 147-156)
StoreCountDocuments ==
    /\ \E t \in DocTypes :
        LET cache1 == ensure_url_cache(url_cache, st_files, t)
        IN  /\ url_cache' = cache1
            /\ st_last' = [NoCall EXCEPT !.op = "count_documents", !.doc_type = t,
                                         !.count = count_documents(cache1, st_files, t)]
    /\ UNCHANGED <<st_files, st_faults, st_accepted>>
    /\ UNCHANGED stFrame


\* the categories get_stats asks for (orchestrator.py:114-117), those of
\* DocTypes, in the order of the call
StatTypes == <<"statement", "speech">>

\* the cache after count_documents has run for each category of ts in turn
RECURSIVE EnsureAll(_, _, _)
EnsureAll(cache, files, ts) ==
    IF ts = <<>> THEN cache
    ELSE EnsureAll(ensure_url_cache(cache, files, Head(ts)), files, Tail(ts))

\* ScrapingOrchestrator.get_stats (orchestrator.py:107-118): one
\* count_documents call per category, nothing else
GetStats ==
    LET cache1 == EnsureAll(url_cache, st_files, StatTypes)
    IN  /\ url_cache' = cache1
        /\ st_last' = [NoCall EXCEPT
                !.op = "get_stats",
                !.stats = [t \in {StatTypes[i] : i \in DOMAIN StatTypes} |->
                              count_documents(cache1, st_files, t)]]
        /\ UNCHANGED <<st_files, st_faults, st_accepted>>
        /\ UNCHANGED stFrame
\* ------------------------------------------------------------------------
\* save_document called by concurrent writers on one DocumentStore: the
\* statements of lines 95-116 as separate steps
\* ------------------------------------------------------------------------
\* the variables a writer step leaves alone
wrFrame == <<rlVars, rtVars, st_last, st_faults, st_accepted, crVars, fdVars, enVars, raVars>>

WRInit ==
    /\ w_pc = [w \in Writers |-> "idle"]
    /\ w_doc = [w \in Writers |-> NoDoc]
    /\ w_buf = [w \in Writers |-> <<>>]
    /\ w_ret = [w \in Writers |-> "none"]
    /\ flock_owner = [t \in DocTypes |-> NoWriter]

\* lines 95-106: the duplicate check against the cache, then open(file_path, "a")
WriterCall(w) ==
    /\ w_pc[w] = "idle"
    /\ \E doc \in Docs :
        LET t == doc.doc_type
            cache1 == ensure_url_cache(url_cache, st_files, t)
        IN  /\ url_cache' = cache1
            /\ w_doc' = [w_doc EXCEPT ![w] = doc]
            /\ IF IsDuplicate(doc.url, cache1[t].urls)
               THEN /\ w_pc' = [w_pc EXCEPT ![w] = "done"]
                    /\ w_ret' = [w_ret EXCEPT ![w] = "false"]
               ELSE /\ w_pc' = [w_pc EXCEPT ![w] = "flock"]
                    /\ UNCHANGED w_ret
    /\ UNCHANGED <<st_files, w_buf, flock_owner>>
    /\ UNCHANGED wrFrame

\* line 107: fcntl.flock(f.fileno(), fcntl.LOCK_EX) blocks while the lock is held
WriterFlock(w) ==
    /\ w_pc[w] = "flock"
    /\ flock_owner[w_doc[w].doc_type] = NoWriter
    /\ flock_owner' = [flock_owner EXCEPT ![w_doc[w].doc_type] = w]
    /\ w_pc' = [w_pc EXCEPT ![w] = "write"]
    /\ UNCHANGED <<st_files, url_cache, w_doc, w_buf, w_ret>>
    /\ UNCHANGED wrFrame

\* line 109: f.write(doc.to_jsonl() + "\n") on the buffered text file.  The
\* record goes to the file object's buffer; what exceeds the buffer is
\* written through at once (k pieces), what fits stays buffered until close.
WriterWrite(w) ==
    /\ w_pc[w] = "write"
    /\ \E k \in 0..ChunksPerRecord :
        LET line == to_jsonl_line(w_doc[w])
        IN  /\ st_files' = [st_files EXCEPT ![w_doc[w].doc_type] = @ \o SubSeq(line, 1, k)]
            /\ w_buf' = [w_buf EXCEPT ![w] = SubSeq(line, k + 1, ChunksPerRecord)]
    /\ w_pc' = [w_pc EXCEPT ![w] = "unlock"]
    /\ UNCHANGED <<url_cache, w_doc, w_ret, flock_owner>>
    /\ UNCHANGED wrFrame

\* lines 110-111: finally: fcntl.flock(f.fileno(), fcntl.LOCK_UN)
WriterUnlock(w) ==
    /\ w_pc[w] = "unlock"
    /\ flock_owner' = [flock_owner EXCEPT ![w_doc[w].doc_type] = NoWriter]
    /\ w_pc' = [w_pc EXCEPT ![w] = "close"]
    /\ UNCHANGED <<st_files, url_cache, w_doc, w_buf, w_ret>>
    /\ UNCHANGED wrFrame

\* end of the with-block (line 106): f.close() flushes the buffer with
\* write(2) on the O_APPEND descriptor; one call appends n pieces at the end
\* of the file, the flush repeats until the buffer is empty
WriterFlush(w) ==
    /\ w_pc[w] = "close"
    /\ w_buf[w] # <<>>
    /\ \E n \in 1..Len(w_buf[w]) :
        /\ st_files' = [st_files EXCEPT ![w_doc[w].doc_type] = @ \o SubSeq(w_buf[w], 1, n)]
        /\ w_buf' = [w_buf EXCEPT ![w] = SubSeq(w_buf[w], n + 1, Len(w_buf[w]))]
    /\ UNCHANGED <<url_cache, w_pc, w_doc, w_ret, flock_owner>>
    /\ UNCHANGED wrFrame

\* lines 113-116: the file is closed; url_cache.add(url_str); return True
WriterReturn(w) ==
    /\ w_pc[w] = "close"
    /\ w_buf[w] = <<>>
    /\ url_cache' = [url_cache EXCEPT
            ![w_doc[w].doc_type].urls = CacheAfterAppend(@, w_doc[w].url, TRUE)]
    /\ w_pc' = [w_pc EXCEPT ![w] = "done"]
    /\ w_ret' = [w_ret EXCEPT ![w] = "true"]
    /\ UNCHANGED <<st_files, w_doc, w_buf, flock_owner>>
    /\ UNCHANGED wrFrame


\* ------------------------------------------------------------------------
\* Scrapers and ScrapingOrchestrator (scrapers/base.py, fomc_statements.py,
\* speeches.py, orchestrator.py)
\* ------------------------------------------------------------------------
\* the years start_year..end_year of the crawl
Years == 1..NumYears

\* make_absolute_url(href) for the document links the index pages carry:
\* one document per category and year
DocUrl(t, y) == "https://fed.gov/" \o t \o "/" \o ToString(y)

DocUrls(t) == {DocUrl(t, y) : y \in Years}

\* the index pages get_document_urls fetches, in order: the one calendar page
\* of FOMCStatementsScraper (fomc_statements.py:32-33, year 0 here), the page
\* per year of SpeechesScraper (speeches.py:43-48)
IndexPages(t) ==
    IF t = "statement" THEN <<[doc_type |-> t, year |-> 0]>>
    ELSE [y \in Years |-> [doc_type |-> t, year |-> y]]

AllIndexPages == UNION {{IndexPages(t)[i] : i \in DOMAIN IndexPages(t)} : t \in DocTypes}

\* the document links of an index page that get_document_urls yields, in
\* page order (fomc_statements.py:37-49, speeches.py:50-54)
PageLinks(page) ==
    IF page.year = 0 THEN [y \in Years |-> DocUrl(page.doc_type, y)]
    ELSE <<DocUrl(page.doc_type, page.year)>>

\* soup.find_all("a", href=True) yields a link as often as the page has it
IndexLinks(page, resp) ==
    IF resp = "twice" THEN PageLinks(page) \o PageLinks(page) ELSE PageLinks(page)

\* make_absolute_url for an index page
IndexUrl(page) ==
    "https://fed.gov/index/" \o page.doc_type \o "/" \o ToString(page.year)

\* what fetch_page (base.py:69-102, under retry_with_backoff) ends with for
\* an index page: the page (twice: a page that carries every link two times),
\* or an exception (a 4xx, or the last error once the retries are used up)
IndexResponses == {"ok", "twice", "fail"}
BriefIndexResponses == {"ok", "fail"}

\* ... and for a document page:
\*   ok      the page, with a date and content
\*   moved   the same after a redirect: response.url is another URL
\*   nodate  a page no date can be extracted for
\*   empty   a page whose content extracts empty
\*   404     fetch_page raises: ClientResponseError at once for a 4xx
\*           (base.py:86-93); the error of the last attempt, once the retries
\*           are used up, takes the same way through the callers
DocResponses == {"ok", "moved", "nodate", "empty", "404"}
BriefResponses == {"ok", "404"}

\* fetch_page raises instead of returning
FetchRaises(resp) == resp \in {"404", "fail"}

\* base.py:102, `return str(response.url), html`: the URL after redirects
final_url(url, resp) == IF resp = "moved" THEN url \o "/" ELSE url

\* scrape_document (fomc_statements.py:101-140, speeches.py:160-205) on a
\* fetched page: None (NoDoc here) without a date or without content, else
\* FedDocument.create(url=final_url, ...)
scrape_document_dateless(t, url, resp) ==
    IF resp = "empty" THEN NoDoc ELSE FedDocumentCreate(final_url(url, resp), t)
scrape_document(t, url, resp) ==
    IF resp \in {"nodate", "empty"} THEN NoDoc
    ELSE FedDocumentCreate(final_url(url, resp), t)

\* base.py:190-194: existing_urls after scrape_document(url) returned doc;
\* the add is inside `if doc:`
existing_after_always(existing, url, doc) == existing \cup {url}
existing_after(existing, url, doc) ==
    IF doc # NoDoc THEN existing \cup {url} ELSE existing

\* base.py:190, `doc = await self.scrape_document(url)`: the loop goes on
\* only when the call, and the fetch in it, has ended
AwaitedFetchPending(inflight, url) == inflight
AwaitedFetch(inflight, url) == inflight \ {url}

\* get_existing_urls returns self._ensure_url_cache(doc_type).copy()
\* (document_store.py:82): the scraper's existing_urls is another set object
\* than the store's cache, which an add to it (base.py:192) leaves as it was
cache_after_add_aliased(cache, t, url) == [cache EXCEPT ![t].urls = @ \cup {url}]
cache_after_add(cache, t, url) == cache

\* is_already_scraped (base.py:133-135)
is_already_scraped_never(url, existing) == FALSE
is_already_scraped(url, existing) == url \in existing

\* base.py:195-197, `except Exception` around scrape_document in scrape_all:
\* catches every error class but those outside Exception (CancelledError)
CaughtInScrapeAllNothing(cls) == FALSE
CaughtInScrapeAll(cls) == cls # "CancelledError"

\* the handler around the index fetch in get_document_urls: `except Exception`
\* in speeches.py:56-58, none in fomc_statements.py:24-49
CaughtInGetDocumentUrls(t, cls) == t = "speech" /\ cls # "CancelledError"

\* document_store.py:118-120: save_document turns an exception of the append
\* into the return value False; nothing is raised to the caller
save_document_raises_on_failure(written) == ~written
save_document_raises(written) == FALSE

\* __aexit__ (base.py:57-60): the session afterwards, whatever exception
\* (exc) leaves the `async with`
aexit_session_leaked(exc) == "open"
aexit_session(exc) == "closed"

\* orchestrator.py:98, `for doc_type in types_to_scrape`: the next category
NextDocTypeLast(todo) == todo[Len(todo)]
NextDocType(todo) == Head(todo)

\* the doc_types arguments modelled
Requests == {<<"statement">>, <<"speech">>, <<"statement", "speech">>}

Requested(request) == {request[i] : i \in DOMAIN request}

\* the sites a request is run against: every answer for the pages of one
\* requested category; with two categories the document pages answer ok or
\* 404 and the index pages ok or fail
Worlds(request) ==
    LET req == Requested(request)
        answers == IF Len(request) = 1 THEN DocResponses ELSE BriefResponses
        indexes == IF Len(request) = 1 THEN IndexResponses ELSE BriefIndexResponses
    IN  {w \in [index : [AllIndexPages -> IndexResponses],
                doc : [UNION {DocUrls(t) : t \in DocTypes} -> DocResponses]] :
            /\ \A p \in AllIndexPages :
                  w.index[p] \in (IF p.doc_type \in req THEN indexes ELSE {"ok"})
            /\ \A t \in DocTypes : \A u \in DocUrls(t) :
                  w.doc[u] \in (IF t \in req THEN answers ELSE {"ok"})}

NoResults == [t \in {} |-> 0]

\* the variables a crawl step leaves alone
crFrame == <<rlVars, rtVars, wrVars, fdVars, enVars, raVars>>

CRIdle ==
    /\ cr_world = [index |-> [p \in AllIndexPages |-> "ok"],
                   doc |-> [u \in UNION {DocUrls(t) : t \in DocTypes} |-> "ok"]]
    /\ cr_request = <<>>
    /\ cr_run = 0
    /\ cr_pc = "idle"
    /\ cr_todo = <<>>
    /\ cr_type = ""
    /\ cr_index = <<>>
    /\ cr_links = <<>>
    /\ cr_url = ""
    /\ cr_doc = NoDoc
    /\ existing_urls = {}
    /\ cr_count = 0
    /\ cr_results = NoResults
    /\ cr_session = [t \in DocTypes |-> "none"]
    /\ cr_attempted = <<>>
    /\ cr_accepted = 0
    /\ cr_files0 = [t \in DocTypes |-> <<>>]
    /\ cr_raised_by = "none"
    /\ cr_inflight = {}
    /\ cr_emitted = <<>>

\* a freshly constructed orchestrator (orchestrator.py:22-34) with an empty
\* store, a request and a site
CRInit ==
    /\ cr_request \in Requests
    /\ cr_world \in Worlds(cr_request)
    /\ cr_run = 0
    /\ cr_pc = "idle"
    /\ cr_todo = <<>>
    /\ cr_type = ""
    /\ cr_index = <<>>
    /\ cr_links = <<>>
    /\ cr_url = ""
    /\ cr_doc = NoDoc
    /\ existing_urls = {}
    /\ cr_count = 0
    /\ cr_results = NoResults
    /\ cr_session = [t \in DocTypes |-> "none"]
    /\ cr_attempted = <<>>
    /\ cr_accepted = 0
    /\ cr_files0 = [t \in DocTypes |-> <<>>]
    /\ cr_raised_by = "none"
    /\ cr_inflight = {}
    /\ cr_emitted = <<>>

\* an exception (exc, raised by the call `by`) leaves scrape_type through
\* the `async with` of orchestrator.py:66-74, whose __aexit__ runs, and then
\* leaves scrape_all, which has no handler (orchestrator.py:98-103)
Propagate(exc, by) ==
    /\ cr_session' = [cr_session EXCEPT ![cr_type] = aexit_session(exc)]
    /\ cr_pc' = IF exc = "CancelledError" THEN "cancelled" ELSE "raised"
    /\ cr_raised_by' = by
    /\ cr_inflight' = {}
    /\ UNCHANGED <<cr_world, cr_request, cr_run, cr_todo, cr_type, cr_index, cr_links,
                   cr_url, cr_doc, existing_urls, cr_count, cr_results,
                   cr_attempted, cr_accepted, cr_files0, cr_emitted>>

\* scrape_all (orchestrator.py:79-97) is called: types_to_scrape, results = {}
RunAll ==
    /\ cr_pc \in {"idle", "done"}
    /\ cr_run < MaxRuns
    /\ cr_run' = cr_run + 1
    /\ cr_todo' = cr_request
    /\ cr_results' = NoResults
    /\ cr_session' = [t \in DocTypes |-> "none"]
    /\ cr_files0' = st_files
    /\ cr_pc' = "next_type"
    /\ UNCHANGED <<cr_world, cr_request, cr_type, cr_index, cr_links, cr_url, cr_doc,
                   existing_urls, cr_count, cr_attempted, cr_accepted, cr_raised_by,
                   cr_inflight, cr_emitted>>
    /\ UNCHANGED stVars
    /\ UNCHANGED crFrame

\* scrape_all's loop takes the next category and calls scrape_type, which
\* runs up to its first await (orchestrator.py:63-70, base.py:36 and 49-55,
\* base.py:185): the exclusion set is read from the store, the scraper is
\* constructed, its session opened and the enumeration started
ScrapeType ==
    /\ cr_pc = "next_type"
    /\ cr_todo # <<>>
    /\ LET t == NextDocType(cr_todo)
       IN  /\ GetExistingUrls(t)
           /\ existing_urls' = st_last'.urls
           /\ cr_type' = t
           /\ cr_session' = [cr_session EXCEPT ![t] = "open"]
           /\ cr_index' = IndexPages(t)
    /\ cr_count' = 0
    /\ cr_links' = <<>>
    /\ cr_attempted' = <<>>
    /\ cr_accepted' = 0
    /\ cr_emitted' = <<>>
    /\ cr_pc' = "enum"
    /\ UNCHANGED <<cr_world, cr_request, cr_run, cr_todo, cr_url, cr_doc, cr_results,
                   cr_files0, cr_raised_by,
                   cr_inflight>>
    /\ UNCHANGED crFrame

\* scrape_all returns results once every category was run (orchestrator.py:105)
RunAllReturn ==
    /\ cr_pc = "next_type"
    /\ cr_todo = <<>>
    /\ cr_pc' = "done"
    /\ UNCHANGED <<cr_world, cr_request, cr_run, cr_todo, cr_type, cr_index, cr_links,
                   cr_url, cr_doc, existing_urls, cr_count, cr_results, cr_session,
                   cr_attempted, cr_accepted, cr_files0, cr_raised_by,
                   cr_inflight, cr_emitted>>
    /\ UNCHANGED stVars
    /\ UNCHANGED crFrame

\* base.py:185-187: the next enumerated URL is in existing_urls and is skipped
EnumSkip ==
    /\ cr_pc = "enum"
    /\ cr_links # <<>>
    /\ is_already_scraped(Head(cr_links), existing_urls)
    /\ cr_links' = Tail(cr_links)
    /\ UNCHANGED <<cr_world, cr_request, cr_run, cr_pc, cr_todo, cr_type, cr_index,
                   cr_url, cr_doc, existing_urls, cr_count, cr_results, cr_session,
                   cr_attempted, cr_accepted, cr_files0, cr_raised_by,
                   cr_inflight, cr_emitted>>
    /\ UNCHANGED stVars
    /\ UNCHANGED crFrame

\* base.py:189-190: scrape_document(url) is called and awaits fetch_page
EnumScrape ==
    /\ cr_pc = "enum"
    /\ cr_links # <<>>
    /\ ~is_already_scraped(Head(cr_links), existing_urls)
    /\ cr_url' = Head(cr_links)
    /\ cr_attempted' = Append(cr_attempted, Head(cr_links))
    /\ cr_inflight' = cr_inflight \cup {Head(cr_links)}
    /\ cr_pc' = "fetch_doc"
    /\ UNCHANGED <<cr_world, cr_request, cr_run, cr_todo, cr_type, cr_index, cr_links,
                   cr_doc, existing_urls, cr_count, cr_results, cr_session,
                   cr_accepted, cr_files0, cr_raised_by,
                   cr_emitted>>
    /\ UNCHANGED stVars
    /\ UNCHANGED crFrame

\* get_document_urls has yielded every link of the current index page and
\* awaits fetch_page for the next one
EnumIndex ==
    /\ cr_pc = "enum"
    /\ cr_links = <<>>
    /\ cr_index # <<>>
    /\ cr_url' = Head(cr_index)
    /\ cr_inflight' = cr_inflight \cup {IndexUrl(Head(cr_index))}
    /\ cr_pc' = "fetch_index"
    /\ UNCHANGED <<cr_world, cr_request, cr_run, cr_todo, cr_type, cr_index, cr_links,
                   cr_doc, existing_urls, cr_count, cr_results, cr_session,
                   cr_attempted, cr_accepted, cr_files0, cr_raised_by,
                   cr_emitted>>
    /\ UNCHANGED stVars
    /\ UNCHANGED crFrame

\* the enumeration is over: scrape_all (base) ends, scrape_type leaves its
\* `async with` and __aexit__ awaits session.close()
EnumEnd ==
    /\ cr_pc = "enum"
    /\ cr_links = <<>>
    /\ cr_index = <<>>
    /\ cr_pc' = "close"
    /\ UNCHANGED <<cr_world, cr_request, cr_run, cr_todo, cr_type, cr_index, cr_links,
                   cr_url, cr_doc, existing_urls, cr_count, cr_results, cr_session,
                   cr_attempted, cr_accepted, cr_files0, cr_raised_by,
                   cr_inflight, cr_emitted>>
    /\ UNCHANGED stVars
    /\ UNCHANGED crFrame

\* fetch_page for an index page ends: its links are yielded next, or its
\* exception is handled inside get_document_urls (the next index page is
\* tried), or it propagates
IndexFetched ==
    /\ cr_pc = "fetch_index"
    /\ LET resp == cr_world.index[cr_url]
       IN  IF ~FetchRaises(resp)
           THEN /\ cr_links' = IndexLinks(cr_url, resp)
                /\ cr_inflight' = AwaitedFetch(cr_inflight, IndexUrl(cr_url))
                /\ cr_index' = Tail(cr_index)
                /\ cr_pc' = "enum"
                /\ UNCHANGED <<cr_world, cr_request, cr_run, cr_todo, cr_type, cr_url,
                               cr_doc, existing_urls, cr_count, cr_results, cr_session,
                               cr_attempted, cr_accepted, cr_files0, cr_raised_by,
                   cr_emitted>>
           ELSE IF CaughtInGetDocumentUrls(cr_type, "ClientResponseError")
           THEN /\ cr_index' = Tail(cr_index)
                /\ cr_inflight' = AwaitedFetch(cr_inflight, IndexUrl(cr_url))
                /\ cr_pc' = "enum"
                /\ UNCHANGED <<cr_world, cr_request, cr_run, cr_todo, cr_type, cr_links,
                               cr_url, cr_doc, existing_urls, cr_count, cr_results,
                               cr_session, cr_attempted, cr_accepted, cr_files0,
                               cr_raised_by,
                   cr_emitted>>
           ELSE Propagate("ClientResponseError", "index")
    /\ UNCHANGED stVars
    /\ UNCHANGED crFrame

\* fetch_page for a document page ends and scrape_document with it
\* (base.py:189-197): an exception is logged and the loop continues; None is
\* passed over; a document has its enumerated URL added to existing_urls and
\* is yielded to scrape_type
DocFetched ==
    /\ cr_pc = "fetch_doc"
    /\ LET resp == cr_world.doc[cr_url]
           doc == scrape_document(cr_type, cr_url, resp)
       IN  IF FetchRaises(resp)
           THEN IF CaughtInScrapeAll("ClientResponseError")
                THEN /\ cr_links' = Tail(cr_links)
                     /\ cr_inflight' = AwaitedFetch(cr_inflight, cr_url)
                     /\ cr_pc' = "enum"
                     /\ UNCHANGED stVars
                     /\ UNCHANGED <<cr_world, cr_request, cr_run, cr_todo, cr_type,
                                    cr_index, cr_url, cr_doc, existing_urls, cr_count,
                                    cr_results, cr_session, cr_attempted, cr_accepted,
                                    cr_files0, cr_raised_by, cr_emitted>>
                ELSE Propagate("ClientResponseError", "document") /\ UNCHANGED stVars
           ELSE IF doc = NoDoc
           THEN /\ cr_links' = Tail(cr_links)
                /\ existing_urls' = existing_after(existing_urls, cr_url, doc)
                /\ cr_inflight' = AwaitedFetch(cr_inflight, cr_url)
                /\ cr_pc' = "enum"
                /\ UNCHANGED stVars
                /\ UNCHANGED <<cr_world, cr_request, cr_run, cr_todo, cr_type, cr_index,
                               cr_url, cr_doc, cr_count, cr_results,
                               cr_session, cr_attempted, cr_accepted, cr_files0,
                               cr_raised_by, cr_emitted>>
           ELSE /\ existing_urls' = existing_after(existing_urls, cr_url, doc)
                /\ cr_inflight' = AwaitedFetch(cr_inflight, cr_url)
                /\ cr_emitted' = Append(cr_emitted, cr_url)
                /\ cr_doc' = doc
                /\ url_cache' = cache_after_add(url_cache, cr_type, cr_url)
                /\ cr_pc' = "emit"
                /\ UNCHANGED <<st_files, st_last, st_faults, st_accepted>>
                /\ UNCHANGED <<cr_world, cr_request, cr_run, cr_todo, cr_type, cr_index,
                               cr_links, cr_url, cr_count, cr_results, cr_session,
                               cr_attempted, cr_accepted, cr_files0, cr_raised_by>>
    /\ UNCHANGED crFrame

\* the body of scrape_type's loop for a yielded document
\* (orchestrator.py:71-74): save_document(doc), whose return value is not
\* read, then count += 1; the driving loop goes on to the next URL
Emit ==
    /\ cr_pc = "emit"
    /\ \E k \in 0..ChunksPerRecord :
        /\ SaveDocument(cr_doc, k)
        /\ IF save_document_raises(k = ChunksPerRecord)
           THEN Propagate("OSError", "storage")
           ELSE /\ cr_count' = cr_count + 1
                /\ cr_accepted' = cr_accepted + (IF st_last'.ret THEN 1 ELSE 0)
                /\ cr_links' = Tail(cr_links)
                /\ cr_doc' = NoDoc
                /\ cr_pc' = "enum"
                /\ UNCHANGED <<cr_world, cr_request, cr_run, cr_todo, cr_type, cr_index,
                               cr_url, existing_urls, cr_results, cr_session,
                               cr_attempted, cr_files0, cr_raised_by,
                   cr_inflight, cr_emitted>>
    /\ UNCHANGED crFrame

\* session.close() is done: scrape_type returns count and scrape_all stores
\* it (orchestrator.py:76-77 and 99-103)
CloseSession ==
    /\ cr_pc = "close"
    /\ cr_session' = [cr_session EXCEPT ![cr_type] = aexit_session("none")]
    /\ cr_results' = [t \in DOMAIN cr_results \cup {cr_type} |->
                        IF t = cr_type THEN cr_count ELSE cr_results[t]]
    /\ cr_todo' = Tail(cr_todo)
    /\ cr_pc' = "next_type"
    /\ UNCHANGED <<cr_world, cr_request, cr_run, cr_type, cr_index, cr_links, cr_url,
                   cr_doc, existing_urls, cr_count, cr_attempted, cr_accepted,
                   cr_files0, cr_raised_by,
                   cr_inflight, cr_emitted>>
    /\ UNCHANGED stVars
    /\ UNCHANGED crFrame

\* the task is cancelled (cli.py:104 and 119: Ctrl-C under asyncio.run) while
\* it is suspended in an await: CancelledError is raised there, passes the
\* `except Exception` handlers and leaves through __aexit__
Cancel ==
    /\ cr_pc \in {"fetch_index", "fetch_doc", "close"}
    /\ ~CaughtInScrapeAll("CancelledError")
    /\ ~CaughtInGetDocumentUrls(cr_type, "CancelledError")
    /\ Propagate("CancelledError", "cancel")
    /\ UNCHANGED stVars
    /\ UNCHANGED crFrame
\* ------------------------------------------------------------------------
\* FedDocument (models/document.py)
\* ------------------------------------------------------------------------
\* the arguments of FedDocument.create that are modelled
Titles == {"FOMC statement", "Press release"}

CreateUrls == {"https://fed.gov/a", "https://fed.gov/b"}

\* two dates whose month and day swap, so that the zero padding matters
Dates == {[year |-> 2023, month |-> 1, day |-> 11], [year |-> 2023, month |-> 11, day |-> 1]}

Contents == {"The Committee decided to maintain the target range. (0)",
             "The Committee decided to maintain the target range. (35061)",
             "The Committee decided to maintain the target range. (36382)"}

\* dt.datetime.utcnow().isoformat() + "Z" (line 44) at the moment of the call
Times == {"2024-01-01T00:00:00Z", "2024-01-02T00:00:00Z"}

\* sha256(content.encode()).hexdigest() (line 42) for the contents above:
\* the first 12 of its 64 hexadecimal characters
sha256_hexdigest(content) ==
    CASE content = "The Committee decided to maintain the target range. (0)" ->
             <<"1", "b", "c", "9", "f", "6", "d", "f", "9", "b", "7", "b">>
      [] content = "The Committee decided to maintain the target range. (35061)" ->
             <<"d", "0", "0", "e", "2", "8", "c", "4", "f", "0", "c", "e">>
      [] content = "The Committee decided to maintain the target range. (36382)" ->
             <<"d", "0", "0", "e", "2", "8", "c", "4", "f", "0", "e", "d">>

\* the decimal digits of n, the most significant first, at least `width` of
\* them (zero padded)
RECURSIVE Digits(_, _)
Digits(n, width) ==
    IF n < 10 /\ width <= 1 THEN <<ToString(n)>>
    ELSE Append(Digits(n \div 10, width - 1), ToString(n % 10))

\* doc_date.strftime('%Y%m%d') (line 43)
strftime_Ymd(date) == Digits(date.year, 4) \o Digits(date.month, 2) \o Digits(date.day, 2)

\* line 43: f"{doc_type}_{YYYYMMDD}_{content_hash[:8]}", as the sequence of
\* its pieces: the category, then one character per element
make_doc_id(doc_type, doc_date, content_hash) ==
    <<doc_type, "_">> \o strftime_Ymd(doc_date) \o <<"_">> \o SubSeq(content_hash, 1, 8)

\* FedDocument.create (lines 28-59); now is what utcnow() returns
create(url, doc_type, title, doc_date, content, now) ==
    LET content_hash == sha256_hexdigest(content)
    IN  [doc_id |-> make_doc_id(doc_type, doc_date, content_hash),
         url |-> HttpUrl(url),
         doc_type |-> doc_type,
         title |-> title,
         date |-> doc_date,
         content |-> content,
         scraped_at |-> now,
         content_hash |-> content_hash]

NotCreated == [doc_id |-> <<>>]

\* the variables a create call leaves alone
fdFrame == <<rlVars, rtVars, stVars, wrVars, crVars, enVars, raVars>>

FDIdle ==
    /\ fd_prev = NotCreated
    /\ fd_last = NotCreated

FDInit == FDIdle

\* a call of FedDocument.create; the document of the call before is kept
\* for comparison
CreateDocument ==
    /\ \E url \in CreateUrls, t \in DocTypes, title \in Titles, d \in Dates,
          c \in Contents, now \in Times :
          fd_last' = create(url, t, title, d, c, now)
    /\ fd_prev' = fd_last
    /\ UNCHANGED fdFrame

\* ------------------------------------------------------------------------
\* get_document_urls of TestimonyScraper (scrapers/testimony.py) and of
\* SpeechesScraper (scrapers/speeches.py)
\* ------------------------------------------------------------------------
EnumScrapers == {"testimony", "speech"}

\* TESTIMONY_INDEX_TEMPLATES (testimony.py:18-21), SPEECH_INDEX_TEMPLATE
\* (speeches.py:17), formatted with the year and made absolute
IndexTemplates(t, year) ==
    IF t = "testimony"
    THEN <<"https://fed.gov/newsevents/testimony/" \o ToString(year) \o "-testimony.htm",
           "https://fed.gov/newsevents/testimony/" \o ToString(year) \o "testimony.htm">>
    ELSE <<"https://fed.gov/newsevents/speech/" \o ToString(year) \o "-speeches.htm">>

EnIndexUrls(t) ==
    UNION {{IndexTemplates(t, y)[k] : k \in DOMAIN IndexTemplates(t, y)} : y \in Years}

\* the local html before a fetch has succeeded (testimony.py:42, None)
NoHtml == ""

\* the template tried after the fetch of template k raised
\* (testimony.py:49-50, `except Exception: continue`)
template_after_failure_none(t, year, k) == Len(IndexTemplates(t, year)) + 1
template_after_failure(t, year, k) == k + 1

\* the year the loop goes on with when no index page of the year could be
\* fetched (testimony.py:52-54 and speeches.py:56-58, `continue`)
year_after_failure_end(year) == NumYears + 1
year_after_failure(year) == year + 1

\* the variables a get_document_urls step leaves alone
enFrame == <<rlVars, rtVars, stVars, wrVars, crVars, fdVars, raVars>>

\* get_document_urls is not running
ENIdle ==
    /\ en_scraper = "testimony"
    /\ en_world = [u \in EnIndexUrls("testimony") |-> "ok"]
    /\ en_pc = "idle"
    /\ en_year = 1
    /\ en_template = 1
    /\ en_html = NoHtml
    /\ en_links = <<>>
    /\ en_fetched = <<>>
    /\ en_yielded = <<>>

\* get_document_urls(start_year, end_year) of one of the two scrapers was
\* called, against a site that answers each index URL with a page or an error
ENInit ==
    /\ en_scraper \in EnumScrapers
    /\ en_world \in [EnIndexUrls(en_scraper) -> BriefIndexResponses]
    /\ en_pc = "year"
    /\ en_year = 1
    /\ en_template = 1
    /\ en_html = NoHtml
    /\ en_links = <<>>
    /\ en_fetched = <<>>
    /\ en_yielded = <<>>

\* testimony.py:41-42, `for year in range(start_year, end_year + 1)`: the
\* next year, html = None; or the generator ends
EnumYear ==
    /\ en_pc = "year"
    /\ IF en_year > NumYears
       THEN /\ en_pc' = "done"
            /\ UNCHANGED <<en_template, en_html>>
       ELSE /\ en_pc' = "template"
            /\ en_template' = 1
            /\ en_html' = NoHtml
    /\ UNCHANGED <<en_scraper, en_world, en_year, en_links, en_fetched, en_yielded>>
    /\ UNCHANGED enFrame

\* testimony.py:45-50 (speeches.py:43-49): fetch_page for the next template;
\* break when it returns, continue with the next template when it raises
EnumFetchIndex ==
    /\ en_pc = "template"
    /\ en_template <= Len(IndexTemplates(en_scraper, en_year))
    /\ LET index_url == IndexTemplates(en_scraper, en_year)[en_template]
       IN  /\ en_fetched' = Append(en_fetched, index_url)
           /\ IF FetchRaises(en_world[index_url])
              THEN /\ en_template' = template_after_failure(en_scraper, en_year, en_template)
                   /\ UNCHANGED <<en_html, en_pc>>
              ELSE /\ en_html' = index_url
                   /\ en_pc' = "fetched"
                   /\ UNCHANGED en_template
    /\ UNCHANGED <<en_scraper, en_world, en_year, en_links, en_yielded>>
    /\ UNCHANGED enFrame

\* testimony.py:45: the templates are used up
EnumTemplatesEnd ==
    /\ en_pc = "template"
    /\ en_template > Len(IndexTemplates(en_scraper, en_year))
    /\ en_pc' = "fetched"
    /\ UNCHANGED <<en_scraper, en_world, en_year, en_template, en_html, en_links,
                   en_fetched, en_yielded>>
    /\ UNCHANGED enFrame

\* testimony.py:52-56 (speeches.py:50, 56-58): without a page, warn and go
\* on with the next year; else parse the page for its document links
EnumParse ==
    /\ en_pc = "fetched"
    /\ IF en_html = NoHtml
       THEN /\ en_year' = year_after_failure(en_year)
            /\ en_pc' = "year"
            /\ UNCHANGED en_links
       ELSE /\ en_links' = <<DocUrl(en_scraper, en_year)>>
            /\ en_pc' = "links"
            /\ UNCHANGED en_year
    /\ UNCHANGED <<en_scraper, en_world, en_template, en_html, en_fetched, en_yielded>>
    /\ UNCHANGED enFrame

\* testimony.py:58-61 (speeches.py:51-54): yield the next matching link, or
\* the page is done
EnumYield ==
    /\ en_pc = "links"
    /\ IF en_links = <<>>
       THEN /\ en_year' = en_year + 1
            /\ en_pc' = "year"
            /\ UNCHANGED <<en_links, en_yielded>>
       ELSE /\ en_yielded' = Append(en_yielded, Head(en_links))
            /\ en_links' = Tail(en_links)
            /\ UNCHANGED <<en_year, en_pc>>
    /\ UNCHANGED <<en_scraper, en_world, en_template, en_html, en_fetched>>
    /\ UNCHANGED enFrame

\* ------------------------------------------------------------------------
\* ScrapingOrchestrator.scrape_all (scrapers/orchestrator.py:79-105) over
\* the four categories, with scrape_type as a call that returns a count
\* ------------------------------------------------------------------------
\* orchestrator.py:95, the default list
DefaultDocTypes == <<"statement", "minutes", "speech", "testimony">>

\* the doc_types arguments: None (given = FALSE) or a list of categories
DocTypeLists == UNION {[1..n -> AllDocTypes] : n \in 0..MaxListLen}

DocTypesArgs ==
    {[given |-> FALSE, list |-> <<>>]} \cup {[given |-> TRUE, list |-> l] : l \in DocTypeLists}

\* orchestrator.py:95: `doc_types or [...]`, None and the empty list are
\* both false
types_to_scrape_if_none(doc_types) ==
    IF doc_types.given THEN doc_types.list ELSE DefaultDocTypes
types_to_scrape(doc_types) ==
    IF doc_types.given /\ doc_types.list # <<>> THEN doc_types.list ELSE DefaultDocTypes

\* what a scrape_type call ends with: its count, or an exception
ScrapeCounts == 0..1
ScrapeOutcomes == ScrapeCounts \cup {-1}

\* the variables a scrape_all step leaves alone
raFrame == <<rlVars, rtVars, stVars, wrVars, crVars, fdVars, enVars>>

\* scrape_all is not running
RAIdle ==
    /\ ra_request = [given |-> FALSE, list |-> <<>>]
    /\ ra_pc = "idle"
    /\ ra_todo = <<>>
    /\ ra_results = NoResults
    /\ ra_ran = <<>>

\* orchestrator.py:95-96: scrape_all(doc_types) is called
ScrapeAllCall ==
    /\ ra_pc = "idle"
    /\ \E doc_types \in DocTypesArgs :
          /\ ra_request' = doc_types
          /\ ra_todo' = types_to_scrape(doc_types)
    /\ ra_results' = NoResults
    /\ ra_ran' = <<>>
    /\ ra_pc' = "loop"
    /\ UNCHANGED raFrame

\* orchestrator.py:98-101: the next category; scrape_type returns its count,
\* which is stored under the category, or raises, which ends scrape_all
ScrapeAllStep ==
    /\ ra_pc = "loop"
    /\ ra_todo # <<>>
    /\ LET doc_type == NextDocType(ra_todo)
       IN  /\ ra_ran' = Append(ra_ran, doc_type)
           /\ \E outcome \in ScrapeOutcomes :
                 IF outcome \in ScrapeCounts
                 THEN /\ ra_results' = [t \in DOMAIN ra_results \cup {doc_type} |->
                                           IF t = doc_type THEN outcome ELSE ra_results[t]]
                      /\ ra_todo' = Tail(ra_todo)
                      /\ UNCHANGED ra_pc
                 ELSE /\ ra_pc' = "raised"
                      /\ UNCHANGED <<ra_results, ra_todo>>
    /\ UNCHANGED ra_request
    /\ UNCHANGED raFrame

\* orchestrator.py:103-105: the loop is over, results is returned
ScrapeAllReturn ==
    /\ ra_pc = "loop"
    /\ ra_todo = <<>>
    /\ ra_pc' = "returned"
    /\ UNCHANGED <<ra_request, ra_todo, ra_results, ra_ran>>
    /\ UNCHANGED raFrame
\* ------------------------------------------------------------------------
\* Specifications
\* ------------------------------------------------------------------------
InitRateLimiter == RLInit /\ RTIdle /\ STInit /\ WRInit /\ CRIdle /\ FDIdle /\ ENIdle /\ RAIdle

NextRateLimiter ==
    \/ \E c \in Callers : RLCall(c)
    \/ \E c \in Callers : RLGate(c)
    \/ \E c \in Callers : RLInterval(c)
    \/ \E c \in Callers : RLWake(c)
    \/ \E c \in Callers : RLRelease(c)
    \/ RLTick

SpecRateLimiter == InitRateLimiter /\ [][NextRateLimiter]_vars


\* the rate limiter with callers whose tasks may be cancelled
NextRateLimiterCancel ==
    \/ \E c \in Callers : RLCallBounded(c)
    \/ \E c \in Callers : RLGate(c)
    \/ \E c \in Callers : RLInterval(c)
    \/ \E c \in Callers : RLWake(c)
    \/ \E c \in Callers : RLRelease(c)
    \/ \E c \in Callers : RLCancel(c)
    \/ RLTickNeeded

SpecRateLimiterCancel == InitRateLimiter /\ [][NextRateLimiterCancel]_vars

\* the rate limiter under the event loop's scheduling: a task that can run
\* does run, a sleep ends when it is due, and every admitted caller calls
\* release()
NextRateLimiterFair ==
    \/ \E c \in Callers : RLCallBounded(c)
    \/ \E c \in Callers : RLGate(c)
    \/ \E c \in Callers : RLInterval(c)
    \/ \E c \in Callers : RLWake(c)
    \/ \E c \in Callers : RLRelease(c)
    \/ RLTickNeeded

SpecRateLimiterFair ==
    /\ InitRateLimiter
    /\ [][NextRateLimiterFair]_vars
    /\ \A c \in Callers :
          /\ WF_vars(RLGate(c))
          /\ WF_vars(RLInterval(c))
          /\ WF_vars(RLWake(c))
          /\ WF_vars(RLRelease(c))
    /\ WF_vars(RLTickNeeded)
InitRetry == RTInit /\ RLIdle /\ STInit /\ WRInit /\ CRIdle /\ FDIdle /\ ENIdle /\ RAIdle

NextRetry ==
    \/ RetryReturn
    \/ RetryOnRateLimit
    \/ RetryOnResponseError
    \/ RetryOnRetryable
    \/ RetryOnOther
    \/ RetrySleepDone

SpecRetry == InitRetry /\ [][NextRetry]_vars


\* the same with progress: func ends (returns or raises) and a sleep ends
SpecRetryFair == InitRetry /\ [][NextRetry]_vars /\ WF_vars(NextRetry)
InitStore == STInit /\ WRInit /\ RLIdle /\ RTIdle /\ CRIdle /\ FDIdle /\ ENIdle /\ RAIdle

NextStore ==
    \/ StoreSave
    \/ StoreGetExistingUrls
    \/ StoreLoadDocuments
    \/ StoreCountDocuments
    \/ GetStats

SpecStore == InitStore /\ [][NextStore]_vars

NextStoreConc ==
    \/ \E w \in Writers : WriterCall(w)
    \/ \E w \in Writers : WriterFlock(w)
    \/ \E w \in Writers : WriterWrite(w)
    \/ \E w \in Writers : WriterUnlock(w)
    \/ \E w \in Writers : WriterFlush(w)
    \/ \E w \in Writers : WriterReturn(w)

SpecStoreConc == InitStore /\ [][NextStoreConc]_vars


InitCrawl == CRInit /\ STInit /\ WRInit /\ RLIdle /\ RTIdle /\ FDIdle /\ ENIdle /\ RAIdle

NextCrawl ==
    \/ RunAll
    \/ ScrapeType
    \/ RunAllReturn
    \/ EnumSkip
    \/ EnumScrape
    \/ EnumIndex
    \/ EnumEnd
    \/ IndexFetched
    \/ DocFetched
    \/ Emit
    \/ CloseSession
    \/ Cancel

SpecCrawl == InitCrawl /\ [][NextCrawl]_vars

\* the same with progress: the event loop runs a task that can take a step
\* (an awaited fetch ends, a loop that is not suspended goes on)
SpecCrawlFair == InitCrawl /\ [][NextCrawl]_vars /\ WF_vars(NextCrawl)

InitDocument == FDInit /\ RLIdle /\ RTIdle /\ STInit /\ WRInit /\ CRIdle /\ ENIdle /\ RAIdle

NextDocument == CreateDocument

SpecDocument == InitDocument /\ [][NextDocument]_vars

\* one fetch_page call on a scraper's own RateLimiter (base.py:37-40)
InitFetch == RTInit /\ RLInit /\ STInit /\ WRInit /\ CRIdle /\ FDIdle /\ ENIdle /\ RAIdle

NextFetch ==
    \/ FetchAttempt
    \/ RLGate(Fetcher)
    \/ RLInterval(Fetcher)
    \/ RLWake(Fetcher)
    \/ FetchReturns
    \/ FetchRateLimited
    \/ FetchResponseError
    \/ FetchTransportError
    \/ FetchOtherError
    \/ RetrySleepDone
    \/ RLTick

SpecFetch == InitFetch /\ [][NextFetch]_vars

\* get_document_urls of the testimony and the speech scraper
InitEnum == ENInit /\ RLIdle /\ RTIdle /\ STInit /\ WRInit /\ CRIdle /\ FDIdle /\ RAIdle

NextEnum ==
    \/ EnumYear
    \/ EnumFetchIndex
    \/ EnumTemplatesEnd
    \/ EnumParse
    \/ EnumYield

SpecEnum == InitEnum /\ [][NextEnum]_vars

\* scrape_all over the four categories
InitRunAll == RAIdle /\ RLIdle /\ RTIdle /\ STInit /\ WRInit /\ CRIdle /\ FDIdle /\ ENIdle

NextRunAll ==
    \/ ScrapeAllCall
    \/ ScrapeAllStep
    \/ ScrapeAllReturn

SpecRunAll == InitRunAll /\ [][NextRunAll]_vars
\* ------------------------------------------------------------------------
\* Claims about RateLimiter
\* ------------------------------------------------------------------------
InFlight == {c \in Callers : rl_pc[c] = "in_flight"}

\* C1: at every moment the number of callers that have returned from
\* acquire() and not yet called release() is at most max_concurrent.
C1_InFlightBounded == Cardinality(InFlight) <= max_concurrent

\* the gate is full while a further caller is suspended in acquire()
C1_Witness ==
    /\ Cardinality(InFlight) = max_concurrent
    /\ \E c \in Callers : rl_pc[c] = "wait_sem"

\* C2: for any two consecutive grants, the recorded start time of the later
\* one is at least min_interval (1/rate) after that of the earlier one.
C2_MinInterval ==
    \A i \in 1..(Len(grants) - 1) : grants[i + 1] - grants[i] >= min_interval

\* a burst: a second grant was recorded exactly min_interval after the first
\* while another admitted caller is still queued on the interval lock
C2_Witness ==
    /\ Len(grants) >= 2
    /\ grants[2] - grants[1] = min_interval
    /\ \E c \in Callers : rl_pc[c] = "wait_lock"

\* the callers that hold a concurrency slot
SlotHolders == {c \in Callers : rl_pc[c] \in {"wait_lock", "sleeping", "in_flight"}}

\* C32: a caller cancelled inside acquire() after the gate admitted it
\* (waiting for the interval lock, or asleep for the minimum interval) gives
\* its slot back: once every caller has finished or been cancelled, the
\* number of free slots is max_concurrent again.
C32_CancelReturnsSlot ==
    (\A c \in Callers : rl_pc[c] \in {"idle"} \cup CancelledPcs) =>
        sem_value = max_concurrent

\* C32, the failing case: the only caller that ever entered was cancelled in
\* its sleep; nobody is left and one slot is missing
C32_SlotLost ==
    /\ \E c \in Callers :
          /\ rl_pc[c] = "cancelled_in_sleep"
          /\ \A d \in Callers \ {c} : rl_pc[d] = "idle"
    /\ grants = <<>>
    /\ lock_owner = NoCaller
    /\ sem_value = max_concurrent - 1

\* C32, what the code does: the slot of a caller cancelled after the gate
\* and before acquire() returned is never returned
C32_SlotsAccounted ==
    sem_value = max_concurrent - Cardinality(SlotHolders)
                - Cardinality({c \in Callers :
                                 rl_pc[c] \in {"cancelled_at_lock", "cancelled_in_sleep"}})

\* C38: the rate limiter cannot deadlock: when every admitted caller calls
\* release(), every caller suspended in acquire() is admitted in the end;
\* the interval lock is never held by a caller waiting for the gate, and
\* its holder is asleep for at most min_interval.
C38_NoDeadlock ==
    /\ \A c \in Callers : (c \in Acquiring) ~> (rl_pc[c] = "in_flight")
    /\ [](lock_owner # NoCaller =>
              /\ rl_pc[lock_owner] = "sleeping"
              /\ SleepDue(lock_owner) - rl_now[lock_owner] \in 1..min_interval)
    /\ [](\A c \in Callers : rl_pc[c] \in {"wait_sem", "wait_lock"} => lock_owner # c)

\* every slot is taken, the lock is held by a sleeper, a third caller waits
\* for the lock and a fourth for the gate
C38_Witness ==
    /\ sem_value = 0
    /\ lock_owner # NoCaller
    /\ \E c \in Callers : rl_pc[c] = "wait_sem"
    /\ \E c \in Callers : rl_pc[c] = "wait_lock"
    /\ \E c \in Callers : rl_pc[c] = "in_flight"
\* ------------------------------------------------------------------------
\* Claims about retry_with_backoff
\* ------------------------------------------------------------------------
RECURSIVE Pow2(_)
Pow2(k) == IF k = 0 THEN 1 ELSE 2 * Pow2(k - 1)

Min(a, b) == IF a <= b THEN a ELSE b

IsDefinitiveRejection(e) ==
    e.cls = "ClientResponseError" /\ e.status \in 400..499 /\ e.status # 429

IsBackoffFailure(e) ==
    \/ e.cls = "ClientResponseError" /\ e.status \in 500..599
    \/ e.cls \in {"TimeoutError", "ClientConnectionError"}

Raised(e) == rt_pc = "done" /\ rt_result = [kind |-> "raised", err |-> e]

\* C3: when func fails with a client response error of status 400-499, the
\* wrapper raises that error at once: no further invocation follows it and
\* no sleep is made for it, whatever the number of attempts left (so a
\* rejection of the first invocation means exactly one invocation, no sleep).
C3_ClientErrorNotRetried ==
    IsDefinitiveRejection(rt_err) =>
        /\ Raised(rt_err)
        /\ rt_calls = rt_err.at
        /\ \A i \in DOMAIN rt_sleeps : rt_sleeps[i].err # rt_err
        /\ rt_err.at = 1 => rt_calls = 1 /\ rt_sleeps = <<>>

\* a 404 on the first of six possible attempts
C3_Witness ==
    /\ rt_tuning = DefaultTuning
    /\ rt_err.cls = "ClientResponseError" /\ rt_err.status = 404
    /\ rt_calls = 1
    /\ attempt < rt_tuning.max_retries
    /\ Raised(rt_err)

\* C4: a RateLimitError with advisory delay d and attempts remaining is
\* followed by a sleep of exactly d: not the backoff value, not jittered.
C4_AdvisedDelay ==
    /\ \A i \in DOMAIN rt_sleeps :
          rt_sleeps[i].err.cls = "RateLimitError" =>
              rt_sleeps[i].delay = rt_sleeps[i].err.retry_after * 100
    /\ (rt_err.cls = "RateLimitError" /\ rt_err.at <= rt_tuning.max_retries) =>
          /\ rt_sleeps # <<>>
          /\ rt_sleeps[Len(rt_sleeps)].err = rt_err

\* a 429 advising 10s on the first attempt, where the backoff would be 5s
C4_Witness ==
    /\ rt_tuning = DefaultTuning
    /\ rt_pc = "sleep"
    /\ Len(rt_sleeps) = 1
    /\ rt_sleeps[1].err.cls = "RateLimitError"
    /\ rt_sleeps[1].err.retry_after = 10
    /\ rt_sleeps[1].delay = 1000

BackoffSleeps == {i \in DOMAIN rt_sleeps : IsBackoffFailure(rt_sleeps[i].err)}

\* C5: for a 5xx response, a timeout or a connection error on attempt k with
\* attempts remaining, the delay before jitter is
\* min(base_delay * 2^k, max_delay); under the default tuning the successive
\* pre-jitter delays are strictly increasing.
C5_BackoffDelay ==
    /\ \A i \in BackoffSleeps :
          rt_sleeps[i].pre =
              Min(rt_tuning.base_delay * Pow2(rt_sleeps[i].attempt), rt_tuning.max_delay)
    /\ rt_tuning = DefaultTuning =>
          \A i, j \in BackoffSleeps : i < j => rt_sleeps[i].pre < rt_sleeps[j].pre

\* five backoff sleeps under the default tuning, the last one of 80s,
\* for server errors and transport errors alike
C5_Witness ==
    /\ rt_tuning = DefaultTuning
    /\ Len(rt_sleeps) = 5
    /\ BackoffSleeps = 1..5
    /\ rt_sleeps[5].pre = 80
    /\ \E i \in 1..5 : rt_sleeps[i].err.cls = "TimeoutError"
    /\ \E i \in 1..5 : rt_sleeps[i].err.status = 503

\* C6 as stated: func is invoked at most maxAttempts = max_retries times.
C6_AtMostMaxRetriesCalls == rt_calls <= rt_tuning.max_retries

\* C6 (amended): func is invoked at most max_retries + 1 times in total, the
\* first invocation and max_retries retries.
C6_AtMostMaxRetriesPlusOneCalls == rt_calls <= rt_tuning.max_retries + 1

\* a 503 on every one of the six invocations of the default tuning
C6_Witness ==
    /\ rt_tuning = DefaultTuning
    /\ rt_calls = default_max_retries + 1
    /\ \A i \in DOMAIN rt_sleeps : rt_sleeps[i].err.status = 503
    /\ rt_err.status = 503
    /\ Raised(rt_err)

\* C7: when every attempt fails with a retryable error, the wrapper raises
\* the error of the final attempt, and does not return normally.
C7_LastErrorRaised ==
    (/\ rt_calls = rt_tuning.max_retries + 1
     /\ rt_err.at = rt_calls
     /\ rt_err.cls \in {"RateLimitError", "ClientResponseError",
                        "ClientConnectionError", "TimeoutError"}
     /\ ~IsDefinitiveRejection(rt_err))
    => /\ rt_pc = "done"
       /\ rt_result.kind = "raised"
       /\ rt_result.err = rt_err

\* the final attempt fails with a timeout after an earlier 503
C7_Witness ==
    /\ rt_calls = rt_tuning.max_retries + 1
    /\ rt_err.at = rt_calls
    /\ rt_err.cls = "TimeoutError"
    /\ last_exception.status = 503
    /\ Raised(rt_err)


\* C35: the attempts are one budget for all failure classes: whatever mix of
\* rate-limit, 5xx and transport failures func raises, it is invoked at most
\* max_retries + 1 times and the wrapper then ends by returning or raising;
\* the exponent of a backoff delay is the overall attempt index, which
\* attempts ended by a rate-limit wait advance as well.
C35_SharedAttemptBudget ==
    /\ [](rt_calls <= rt_tuning.max_retries + 1)
    /\ <>(rt_pc = "done" /\ rt_result.kind \in {"returned", "raised"})
    /\ [](\A i \in DOMAIN rt_sleeps :
            /\ rt_sleeps[i].attempt = i - 1
            /\ rt_sleeps[i].err.at = i
            /\ IsBackoffFailure(rt_sleeps[i].err) =>
                  rt_sleeps[i].pre =
                      Min(rt_tuning.base_delay * Pow2(i - 1), rt_tuning.max_delay))

\* a 429, a 503 and a timeout in turn under the default tuning: the 503 is
\* the first backoff failure and waits 10s, not 5s; the sixth invocation
\* fails too and its error is raised
C35_Witness ==
    /\ rt_tuning = DefaultTuning
    /\ rt_calls = default_max_retries + 1
    /\ Raised(rt_err)
    /\ rt_sleeps[1].err.cls = "RateLimitError"
    /\ rt_sleeps[2].err.status = 503
    /\ rt_sleeps[2].pre = 10
    /\ rt_sleeps[3].err.cls = "TimeoutError"
    /\ rt_sleeps[3].pre = 20
    /\ rt_sleeps[4].err.cls = "RateLimitError"
\* ------------------------------------------------------------------------
\* Claims about DocumentStore
\* ------------------------------------------------------------------------
\* the step is a call of save_document (any call that changes anything)
IsSaveStep == st_last'.op = "save" /\ stVars' # stVars

\* the documents of the well-formed records of a category's log, in order
Records(t) == ParsedDocs(SplitLines(st_files[t]))

NoDuplicateRecords ==
    \A t \in DocTypes :
        \A i, j \in DOMAIN Records(t) : i # j => Records(t)[i].url # Records(t)[j].url

CachedUrls(t) == IF url_cache[t].loaded THEN url_cache[t].urls ELSE load_urls(st_files[t])

\* C9: save adds the URL to the cache only after the append has succeeded; if
\* the append fails, save returns false and the cache does not change, and a
\* later save of the same URL tries the append again instead of being
\* rejected as a duplicate.
C9_CacheAfterAppend ==
    /\ [][IsSaveStep =>
            LET d == st_last'.doc
                t == d.doc_type
            IN  /\ (d.url \in url_cache'[t].urls /\ d.url \notin CachedUrls(t))
                       => /\ st_last'.ret = TRUE
                          /\ st_files'[t] = st_files[t] \o to_jsonl_line(d)
                /\ st_faults' # st_faults
                       => /\ st_last'.ret = FALSE
                          /\ url_cache'[t].urls = CachedUrls(t)
                /\ (/\ st_last.op = "save"
                    /\ st_last.doc = d
                    /\ st_last.ret = FALSE
                    /\ d.url \notin CachedUrls(t))
                       => (st_last'.ret = TRUE \/ st_faults' # st_faults)
         ]_vars
    /\ [](\A t \in DocTypes : \A u \in url_cache[t].urls :
            \E i \in 1..Len(st_files[t]) :
                /\ i + ChunksPerRecord - 1 <= Len(st_files[t])
                /\ \A p \in 1..ChunksPerRecord :
                      /\ st_files[t][i + p - 1].part = p
                      /\ st_files[t][i + p - 1].doc.url = u)

\* an append that failed after part of the record was written, followed by
\* a save of the same URL that was tried again and succeeded
C9_Witness ==
    /\ st_faults = 1
    /\ st_last.op = "save"
    /\ st_last.ret = TRUE
    /\ LET d == st_last.doc
       IN  st_files[d.doc_type] = <<[doc |-> d, part |-> 1]>> \o to_jsonl_line(d)

AllWritersDone == \A w \in Writers : w_pc[w] = "done"

DistinctUrls ==
    \A w1, w2 \in Writers :
        (w1 # w2 /\ w_doc[w1].doc_type = w_doc[w2].doc_type) => w_doc[w1].url # w_doc[w2].url

\* C10: all bytes of a record reach the category log while the writer holds
\* the exclusive lock, so that N concurrent save calls for N distinct URLs on
\* an empty store leave exactly N well-formed lines, none interleaved.
C10_AppendUnderLock ==
    /\ \A w \in Writers :
          w_buf[w] # <<>> => flock_owner[w_doc[w].doc_type] = w
    /\ (AllWritersDone /\ DistinctUrls) =>
          \A t \in DocTypes :
              LET lines == SplitLines(st_files[t])
              IN  /\ \A i \in DOMAIN lines : Parses(lines[i])
                  /\ Len(lines) = Cardinality({w \in Writers : w_doc[w].doc_type = t})

\* C10, the outcome alone: the log of concurrent saves of distinct URLs has
\* a line that does not parse
C10_InterleavedLog ==
    /\ AllWritersDone
    /\ DistinctUrls
    /\ \E t \in DocTypes :
          \E i \in DOMAIN SplitLines(st_files[t]) : ~Parses(SplitLines(st_files[t])[i])


\* the step is a call of save_document that returned True
IsAcceptedSave == IsSaveStep /\ st_last'.ret = TRUE

\* C21: load_documents(category) yields the well-formed records of the
\* category's log in append order, passing over a corrupt or partly written
\* line and still yielding the well-formed records after it; every call
\* reads the file anew, so a document whose save was accepted is among the
\* documents a following call yields.
C21_LoadAllReflectsSaves ==
    /\ [][st_last'.op = "load_documents" =>
            /\ st_last'.docs = Records(st_last'.doc_type)
            /\ st_files' = st_files]_vars
    /\ [][IsAcceptedSave =>
            LET d == st_last'.doc
                yielded == load_documents(st_files', d.doc_type)
            IN  \E i \in DOMAIN yielded : yielded[i] = d]_vars

\* C21, the failing case: a save was accepted right after a failed append of
\* the same category, and a read of the log does not yield its document
C21_AcceptedSaveNotYielded ==
    /\ st_last.op = "save"
    /\ st_last.ret = TRUE
    /\ st_faults = 1
    /\ \A i \in DOMAIN Records(st_last.doc.doc_type) :
          Records(st_last.doc.doc_type)[i] # st_last.doc

\* C22: once a category was loaded, get_existing_urls answers from the cache
\* without reading the file again, and after any sequence of save calls
\* through this store the cache is the set of URLs of the well-formed
\* records of the category's log.
C22_CacheMatchesLog ==
    /\ [][(st_last'.op = "get_existing_urls" /\ url_cache[st_last'.doc_type].loaded) =>
            /\ st_last'.urls = url_cache[st_last'.doc_type].urls
            /\ url_cache' = url_cache]_vars
    /\ [](\A t \in DocTypes :
            url_cache[t].loaded => url_cache[t].urls = load_urls(st_files[t]))

\* C22, the part that holds: a loaded category is answered from the cache
C22_NoReread ==
    [][(st_last'.op = "get_existing_urls" /\ url_cache[st_last'.doc_type].loaded) =>
            /\ st_last'.urls = url_cache[st_last'.doc_type].urls
            /\ url_cache' = url_cache]_vars

\* C26: save_document(doc) appends only to the log of doc's category and
\* changes only that category's URL cache; the logs and caches of the other
\* categories stay as they were, so no log holds a record of another
\* category.
C26_SaveTouchesOwnCategory ==
    /\ [][IsSaveStep =>
            \A t \in DocTypes \ {st_last'.doc.doc_type} :
                st_files'[t] = st_files[t] /\ url_cache'[t] = url_cache[t]]_vars
    /\ [](\A t \in DocTypes : \A i \in DOMAIN st_files[t] : st_files[t][i].doc.doc_type = t)

\* a speech was saved into a store that holds a statement: each log has its
\* own record
C26_Witness ==
    /\ st_last.op = "save"
    /\ st_last.ret = TRUE
    /\ st_last.doc.doc_type = "speech"
    /\ Len(Records("speech")) = 1
    /\ Len(Records("statement")) = 1
    /\ url_cache["statement"].loaded

\* C28: get_stats returns for each category what count_documents returns for
\* it, the number of documents the store holds in the category; it fetches
\* nothing and appends to no log.
C28_StatsAreCounts ==
    [][st_last'.op = "get_stats" =>
          /\ DOMAIN st_last'.stats = DocTypes
          /\ \A t \in DocTypes : st_last'.stats[t] = Cardinality(CachedUrls(t))
          /\ st_files' = st_files
          /\ cr_attempted' = cr_attempted
          /\ cr_session' = cr_session]_vars

\* statistics of a store with two statements and one speech, where an append
\* has failed and left a partial line behind
C28_Witness ==
    /\ st_last.op = "get_stats"
    /\ st_last.stats["statement"] = 2
    /\ st_last.stats["speech"] = 1
    /\ st_faults = 1

\* C37: after any sequence of save_document calls on one store that started
\* empty, count_documents(category) is the number of records
\* load_documents(category) yields and the number of save_document calls of
\* the category that returned True.
C37_CountIsRecordsIsAccepted ==
    \A t \in DocTypes :
        LET count == count_documents(ensure_url_cache(url_cache, st_files, t), st_files, t)
        IN  /\ count = Len(load_documents(st_files, t))
            /\ count = st_accepted[t]

\* C37, the part that holds: the count is the number of accepted saves
C37_CountIsAccepted ==
    \A t \in DocTypes :
        count_documents(ensure_url_cache(url_cache, st_files, t), st_files, t) = st_accepted[t]

\* C37 while no append has failed
C37_HoldsWithoutFaults ==
    st_faults = 0 => C37_CountIsRecordsIsAccepted

\* scrape_type has returned for category t in the current scrape_all call
Finished(t) ==
    /\ cr_pc \in {"next_type", "done"}
    /\ cr_type = t
    /\ t \in DOMAIN cr_results

AttemptedUrls == {cr_attempted[i] : i \in DOMAIN cr_attempted}

\* the URLs get_document_urls yields for category t: the links of its index
\* pages that could be fetched
Enumerated(t) ==
    UNION {{PageLinks(IndexPages(t)[i])[j] : j \in DOMAIN PageLinks(IndexPages(t)[i])} :
              i \in {n \in DOMAIN IndexPages(t) :
                         ~FetchRaises(cr_world.index[IndexPages(t)[n]])}}

\* C11: an exception raised by scrape_document for one URL (a 4xx, used-up
\* retries, anything else) does not end the scraper's stream: no such
\* exception leaves scrape_type, and once the category has been run every
\* enumerated URL was either excluded or attempted.
C11_ScrapeErrorIsolated ==
    /\ cr_raised_by # "document"
    /\ \A t \in DocTypes :
          Finished(t) =>
              \A u \in Enumerated(t) : u \in AttemptedUrls \/ u \in existing_urls

\* the fetch of the first document page of the statement category raised,
\* the second one was attempted after it and the category run returned
C11_Witness ==
    /\ Finished("statement")
    /\ cr_world.doc[DocUrl("statement", 1)] = "404"
    /\ Len(cr_attempted) >= 2
    /\ cr_attempted[1] = DocUrl("statement", 1)
    /\ cr_attempted[2] = DocUrl("statement", 2)

SkipResponses == {"nodate", "empty"}

\* C12: when scrape_document finds no date or no content the URL is passed
\* over: the step yields no document, leaves the count and the store as they
\* are and goes on to the next URL; no record of such a page is ever stored.
C12_SkipYieldsNothing ==
    /\ [][(/\ cr_pc = "fetch_doc"
           /\ cr_world.doc[cr_url] \in SkipResponses
           /\ cr_pc' # "cancelled")
              => /\ cr_pc' = "enum"
                 /\ cr_links' = Tail(cr_links)
                 /\ UNCHANGED <<cr_doc, cr_count, cr_results, st_files, url_cache>>
         ]_vars
    /\ [](\A t \in DocTypes : \A u \in DocUrls(t) :
             cr_world.doc[u] \in SkipResponses => u \notin load_urls(st_files[t]))

\* a page without a date was passed over and the next URL is being fetched
C12_Witness ==
    /\ cr_pc = "fetch_doc"
    /\ Len(cr_attempted) = 2
    /\ cr_world.doc[cr_attempted[1]] = "nodate"
    /\ cr_count = 0
    /\ st_files[cr_type] = <<>>

\* C13: the count scrape_type returns is the number of documents for which
\* save_document returned True during that run.
C13_CountIsAccepted ==
    \A t \in DocTypes : Finished(t) => cr_results[t] = cr_accepted

\* C14: a second scrape_all over the same site, with no storage error in
\* between, returns zero for every category and appends no record.
C14_SecondRunAddsNothing ==
    (cr_run >= 2 /\ cr_pc = "done" /\ st_faults = 0) =>
        /\ \A t \in DOMAIN cr_results : cr_results[t] = 0
        /\ st_files = cr_files0

\* the store held exactly the record of the statement of year 1 when this
\* scrape_all call began, the calendar page lists the statements and every
\* other statement page answers 404
C15_Scenario ==
    /\ cr_request = <<"statement">>
    /\ cr_run >= 1
    /\ cr_files0["statement"] = to_jsonl_line(FedDocumentCreate(DocUrl("statement", 1), "statement"))
    /\ cr_world.index[IndexPages("statement")[1]] = "ok"
    /\ \A y \in Years \ {1} : cr_world.doc[DocUrl("statement", y)] = "404"

\* C15: with U1 in the store, U1 and U2 enumerated and the fetch of U2
\* answered 404, scrape_type does not raise, fetches nothing for U1, returns
\* 0 and leaves the log as it was: the record of U1 and nothing else.
C15_ExcludedAndRejected ==
    C15_Scenario =>
        /\ cr_pc # "raised"
        /\ cr_session["statement"] # "none" => DocUrl("statement", 1) \notin AttemptedUrls
        /\ Finished("statement") =>
              /\ cr_results["statement"] = 0
              /\ st_files["statement"] = cr_files0["statement"]

\* the run of the scenario has returned after it tried the other statement
C15_Witness ==
    /\ C15_Scenario
    /\ Finished("statement")
    /\ cr_attempted # <<>>
    /\ cr_attempted[1] = DocUrl("statement", 2)

\* C16: a storage error while a document is appended does not raise out of
\* scrape_type: the step that failed goes on to the next URL, and no run
\* ever ends with an exception of the store.
C16_StorageErrorContained ==
    /\ [][(cr_pc = "emit" /\ st_faults' # st_faults)
              => /\ cr_pc' = "enum"
                 /\ cr_links' = Tail(cr_links)
                 /\ cr_session' = cr_session
         ]_vars
    /\ [](cr_raised_by # "storage")

\* the append of the first statement failed, the second statement was
\* saved and the run returned its count
C16_Witness ==
    /\ Finished("statement")
    /\ st_faults = 1
    /\ st_files["statement"] = to_jsonl_line(FedDocumentCreate(DocUrl("statement", 2), "statement"))
    /\ Len(cr_attempted) >= 2

\* C17: scrape_all returns a count for every requested category even when
\* page fetches fail: it never ends with an exception, and its result has
\* an entry for each requested category.
C17_EveryCategoryCounted ==
    /\ cr_pc # "raised"
    /\ cr_pc = "done" => DOMAIN cr_results = Requested(cr_request)

\* C18: the categories are run one after another in the requested order: at
\* most one scraper has an open session, and a scraper exists only when the
\* sessions of all categories requested before it are closed.
C18_OneCategoryAtATime ==
    /\ Cardinality({t \in DocTypes : cr_session[t] = "open"}) <= 1
    /\ \A i, j \in DOMAIN cr_request :
          (i < j /\ cr_session[cr_request[j]] # "none") => cr_session[cr_request[i]] = "closed"

\* the second requested category is being crawled after the first
C18_Witness ==
    /\ Len(cr_request) = 2
    /\ cr_session[cr_request[1]] = "closed"
    /\ cr_session[cr_request[2]] = "open"
    /\ cr_pc = "fetch_doc"

\* C19: the session of a category run is closed on every way out of
\* scrape_type (return, exception, cancellation), and a fetch is in flight
\* only on the open session of the category being run.
C19_SessionClosedOnExit ==
    /\ cr_pc \in {"idle", "next_type", "done", "raised", "cancelled"} =>
          \A t \in DocTypes : cr_session[t] # "open"
    /\ cr_pc \in {"fetch_index", "fetch_doc"} => cr_session[cr_type] = "open"

\* the task was cancelled during the fetch of a document page
C19_Witness ==
    /\ cr_pc = "cancelled"
    /\ cr_attempted # <<>>
    /\ cr_session[cr_type] = "closed"

\* every line of every log is one whole record and every cached URL has its
\* record in the log
StoreConsistent ==
    \A t \in DocTypes :
        /\ \A i \in DOMAIN SplitLines(st_files[t]) : Parses(SplitLines(st_files[t])[i])
        /\ url_cache[t].urls \subseteq load_urls(st_files[t])

EmittedUrls == {cr_emitted[i] : i \in DOMAIN cr_emitted}

\* C23: the driving loop never calls scrape_document (issues no document
\* fetch) for an enumerated URL that is in existing_urls, whether the URL
\* was loaded from the store when the category run started or added earlier
\* in the same run.
C23_ExcludedNeverFetched ==
    /\ [](cr_pc = "fetch_doc" => cr_url \notin existing_urls)
    /\ [][Len(cr_attempted') > Len(cr_attempted) =>
            cr_attempted'[Len(cr_attempted')] \notin existing_urls]_vars
    /\ [][\A u \in cr_inflight' \ cr_inflight : u \notin existing_urls]_vars

\* second scrape_all over a calendar that carries every link twice: the
\* first statement is in the store and is passed over both times, the second
\* (stored under its redirect target) is fetched once and passed over when
\* it comes again
C23_Witness ==
    /\ cr_run = 2
    /\ Finished("statement")
    /\ cr_world.index[IndexPages("statement")[1]] = "twice"
    /\ cr_world.doc[DocUrl("statement", 1)] = "ok"
    /\ cr_world.doc[DocUrl("statement", 2)] = "moved"
    /\ cr_attempted = <<DocUrl("statement", 2)>>
    /\ {DocUrl("statement", 1), DocUrl("statement", 2)} \subseteq existing_urls

\* the well-formed records category t's log has gained in this scrape_all call
NewRecords(t) ==
    SubSeq(Records(t), Len(ParsedDocs(SplitLines(cr_files0[t]))) + 1, Len(Records(t)))

\* the URLs get_document_urls yields from the given index pages, in order
RECURSIVE EnumerationOf(_)
EnumerationOf(pages) ==
    IF pages = <<>> THEN <<>>
    ELSE LET resp == cr_world.index[Head(pages)]
         IN  (IF FetchRaises(resp) THEN <<>> ELSE IndexLinks(Head(pages), resp))
                 \o EnumerationOf(Tail(pages))

FirstPos(seq, u) == CHOOSE i \in DOMAIN seq : seq[i] = u /\ \A j \in 1..(i - 1) : seq[j] # u

\* the enumerated URL whose document is stored under the URL r
EnumeratedFor(t, r) == CHOOSE u \in DocUrls(t) : final_url(u, cr_world.doc[u]) = r

\* C25: the documents of one scraper are persisted in enumeration order: of
\* two records a category's log gained in one run, the one whose URL was
\* enumerated first comes first.
C25_PersistedInEnumerationOrder ==
    \A t \in DocTypes :
        \A i, j \in DOMAIN NewRecords(t) :
            i < j =>
                FirstPos(EnumerationOf(IndexPages(t)), EnumeratedFor(t, NewRecords(t)[i].url))
                  < FirstPos(EnumerationOf(IndexPages(t)), EnumeratedFor(t, NewRecords(t)[j].url))

\* a speech run that persisted the documents of two yearly index pages
C25_Witness ==
    /\ cr_run = 1
    /\ Finished("speech")
    /\ Len(NewRecords("speech")) = 2
    /\ NewRecords("speech")[1].url = DocUrl("speech", 1)

\* C29: the document fetches of a category run are issued one at a time: the
\* driving loop awaits scrape_document before it takes the next URL, so at
\* most one fetch is in flight.
C29_OneFetchAtATime == Cardinality(cr_inflight) <= 1

\* C29 as stated: fetches are issued concurrently, a state with more than
\* one fetch in flight comes about during a category run
C29_ConcurrentFetches == <>(Cardinality(cr_inflight) > 1)

\* the second document fetch of a run is in flight, the first has ended
C29_Witness ==
    /\ cr_pc = "fetch_doc"
    /\ Len(cr_attempted) = 2
    /\ cr_attempted[1] # cr_attempted[2]
    /\ cr_inflight = {cr_url}

\* C30: a URL is added to existing_urls exactly when scrape_document returned
\* a document for it, not when it returned None or raised; so in one run a
\* URL is emitted at most once however often it is enumerated, and a URL
\* whose attempt gave no document is attempted again when it is enumerated
\* again.
C30_ExclusionOnlyOnDocument ==
    /\ [][cr_pc = "fetch_doc" =>
            existing_urls' = IF cr_pc' = "emit" THEN existing_urls \cup {cr_url}
                             ELSE existing_urls]_vars
    /\ [][existing_urls' # existing_urls =>
            (cr_pc = "next_type" \/ (cr_pc = "fetch_doc" /\ cr_pc' = "emit"))]_vars
    /\ [](\A i, j \in DOMAIN cr_emitted : i # j => cr_emitted[i] # cr_emitted[j])
    /\ [][(/\ cr_pc = "enum"
           /\ cr_links # <<>>
           /\ Head(cr_links) \in AttemptedUrls \ EmittedUrls)
          => (cr_pc' = "fetch_doc" /\ cr_url' = Head(cr_links))]_vars

\* a calendar that carries every link twice: the statement whose page is a
\* 404 was attempted both times, the one that gave a document only once
C30_Witness ==
    /\ Finished("statement")
    /\ cr_world.index[IndexPages("statement")[1]] = "twice"
    /\ cr_attempted = <<DocUrl("statement", 1), DocUrl("statement", 2), DocUrl("statement", 1)>>
    /\ cr_emitted = <<DocUrl("statement", 2)>>

\* the enumerated URLs of category t that have a well-formed record in the
\* log (under the URL their document was created with)
EnumeratedAndStored(t) ==
    {u \in DocUrls(t) :
        \E i \in DOMAIN Records(t) : Records(t)[i].url = final_url(u, cr_world.doc[u])}

\* C33: the source URL a document is stored under is the URL the scraper
\* enumerated, tested against existing_urls and added to it; hence what
\* get_existing_urls loads at the start of the next run has every URL that
\* was enumerated and stored.
C33_StoredUrlIsEnumeratedUrl ==
    /\ cr_pc = "emit" => (cr_doc.url = cr_url /\ cr_doc.url \in existing_urls)
    /\ \A t \in DocTypes : EnumeratedAndStored(t) \subseteq load_urls(st_files[t])

\* C33, the failing case: a statement whose page redirects is stored, no
\* append has failed, and the next run's exclusion set is without the URL
\* the calendar carries for it
C33_EnumeratedUrlNotExcluded ==
    /\ cr_run = 2
    /\ cr_pc = "enum"
    /\ cr_type = "statement"
    /\ st_faults = 0
    /\ cr_attempted = <<>>
    /\ DocUrl("statement", 1) \in EnumeratedAndStored("statement")
    /\ DocUrl("statement", 1) \notin existing_urls

\* C34: get_existing_urls hands out a snapshot: a URL the scraper adds to
\* its existing_urls does not enter the store's cache, so the save of the
\* document just yielded is not rejected as a duplicate because of that add
\* (no append having failed: it is accepted unless its URL is in the log or
\* the append fails).
C34_SnapshotNotCache ==
    /\ [][cr_pc = "fetch_doc" => url_cache' = url_cache]_vars
    /\ [][(/\ cr_pc = "emit"
           /\ st_faults = 0
           /\ cr_doc.url \notin load_urls(st_files[cr_type]))
          => (st_last'.ret = TRUE \/ st_faults' = 1)]_vars
    /\ [](cr_pc = "emit" =>
            (cr_url \in existing_urls
             /\ (st_faults = 0 => url_cache[cr_type].urls = load_urls(st_files[cr_type]))))

\* the document of a URL the scraper had already put into existing_urls was
\* saved and accepted
C34_Witness ==
    /\ cr_pc = "enum"
    /\ st_last.op = "save"
    /\ st_last.ret = TRUE
    /\ st_last.doc.url = cr_url
    /\ cr_url \in existing_urls
    /\ cr_count = 1

\* ------------------------------------------------------------------------
\* Claims about FedDocument
\* ------------------------------------------------------------------------
BothCreated == fd_prev # NotCreated /\ fd_last # NotCreated

SameTriple ==
    /\ fd_prev.doc_type = fd_last.doc_type
    /\ fd_prev.date = fd_last.date
    /\ fd_prev.content = fd_last.content

\* the identifier has the form category _ YYYYMMDD _ first 8 characters of
\* the fingerprint
WellFormedId(doc) ==
    /\ Len(doc.doc_id) = 19
    /\ doc.doc_id[1] = doc.doc_type
    /\ doc.doc_id[2] = "_"
    /\ SubSeq(doc.doc_id, 3, 10)
          = Digits(doc.date.year * 10000 + doc.date.month * 100 + doc.date.day, 8)
    /\ doc.doc_id[11] = "_"
    /\ SubSeq(doc.doc_id, 12, 19) = SubSeq(doc.content_hash, 1, 8)

\* C27: the identifier is category _ date as YYYYMMDD _ first 8 characters
\* of the content fingerprint; it depends on category, date and content only
\* (equal triples give equal identifiers whatever the URL, title and time of
\* the call), and another content gives another identifier.
C27_IdFunctionOfTriple ==
    /\ fd_last # NotCreated => WellFormedId(fd_last)
    /\ (BothCreated /\ SameTriple) => fd_prev.doc_id = fd_last.doc_id
    /\ (/\ BothCreated
        /\ fd_prev.doc_type = fd_last.doc_type
        /\ fd_prev.date = fd_last.date
        /\ fd_prev.content # fd_last.content) => fd_prev.doc_id # fd_last.doc_id

\* C27, the parts that hold: the form of the identifier, and equal
\* identifiers for equal triples
C27_IdDeterministic ==
    /\ fd_last # NotCreated => WellFormedId(fd_last)
    /\ (BothCreated /\ SameTriple) => fd_prev.doc_id = fd_last.doc_id

\* C27, the failing case: two documents of one category and date with
\* different contents and fingerprints, and the same identifier
C27_SameIdForDifferentContent ==
    /\ BothCreated
    /\ fd_prev.content # fd_last.content
    /\ fd_prev.content_hash # fd_last.content_hash
    /\ fd_prev.doc_id = fd_last.doc_id

\* ------------------------------------------------------------------------
\* Claims about fetch_page
\* ------------------------------------------------------------------------
\* the step ends an attempt: func has returned or raised
AttemptEnds == rt_calls' = rt_calls + 1

\* C24: every fetch attempt, the retries among them, first acquires a slot
\* of the RateLimiter and gives it back when the attempt ends, by return or
\* by any exception; no slot is held while the retry wrapper sleeps between
\* attempts or after it has ended.
C24_SlotPerAttempt ==
    /\ [][AttemptEnds =>
            /\ rl_pc[Fetcher] = "in_flight"
            /\ rl_pc'[Fetcher] = "idle"
            /\ sem_value' = sem_value + 1]_vars
    /\ [](rt_pc \in {"sleep", "done"} =>
            (rl_pc[Fetcher] = "idle" /\ sem_value = max_concurrent))
    /\ [](Len(grants) \in {rt_calls, rt_calls + 1})

\* the wrapper sleeps after its second attempt, a 503 that followed a 429:
\* both attempts were admitted by the rate limiter and no slot is held
C24_Witness ==
    /\ rt_pc = "sleep"
    /\ rt_calls = 2
    /\ Len(grants) = 2
    /\ rt_sleeps[1].err.cls = "RateLimitError"
    /\ rt_err.status = 503
    /\ sem_value = max_concurrent

\* C36: an exception outside the retryable classes (the RuntimeError of a
\* scraper whose session was not opened) leaves the wrapper after the one
\* invocation that raised it: it is not invoked again, no sleep is made for
\* it, and the rate-limiter slot of the attempt has been released.
C36_NonRetryablePropagates ==
    rt_err.cls = "RuntimeError" =>
        /\ rt_pc = "done"
        /\ rt_result = [kind |-> "raised", err |-> rt_err]
        /\ rt_calls = rt_err.at
        /\ Len(rt_sleeps) = rt_calls - 1
        /\ \A i \in DOMAIN rt_sleeps : rt_sleeps[i].err # rt_err
        /\ rl_pc[Fetcher] = "idle"
        /\ sem_value = max_concurrent
        /\ rt_err.at = 1 => (rt_calls = 1 /\ rt_sleeps = <<>>)

\* the first invocation raised RuntimeError after it was admitted by the
\* rate limiter; five retries were left
C36_Witness ==
    /\ rt_tuning = DefaultTuning
    /\ rt_err.cls = "RuntimeError"
    /\ rt_calls = 1
    /\ Len(grants) = 1
    /\ rt_result.kind = "raised"
    /\ sem_value = max_concurrent

\* the index URLs of a year that get fetched: the templates in their order,
\* up to and with the first that answers with a page
RECURSIVE TriedFrom(_, _, _)
TriedFrom(t, year, k) ==
    IF k > Len(IndexTemplates(t, year)) THEN <<>>
    ELSE IF en_world[IndexTemplates(t, year)[k]] = "ok" THEN <<IndexTemplates(t, year)[k]>>
    ELSE <<IndexTemplates(t, year)[k]>> \o TriedFrom(t, year, k + 1)

\* some index URL of the year answers with a page
YearHasIndex(t, year) ==
    \E k \in DOMAIN IndexTemplates(t, year) : en_world[IndexTemplates(t, year)[k]] = "ok"

RECURSIVE FetchesThrough(_, _)
FetchesThrough(t, year) ==
    IF year = 0 THEN <<>> ELSE FetchesThrough(t, year - 1) \o TriedFrom(t, year, 1)

RECURSIVE YieldsThrough(_, _)
YieldsThrough(t, year) ==
    IF year = 0 THEN <<>>
    ELSE YieldsThrough(t, year - 1)
         \o (IF YearHasIndex(t, year) THEN <<DocUrl(t, year)>> ELSE <<>>)

IsPrefixOf(s, t) == Len(s) <= Len(t) /\ s = SubSeq(t, 1, Len(s))

\* C31: for each year the testimony scraper tries its index URL templates in
\* their order, the next one only when the one before failed, and stops at
\* the first that succeeds; when every template of a year fails (as when the
\* one speech index of a year fails) nothing is yielded for the year and the
\* enumeration goes on with the next year.
C31_TemplateFallback ==
    /\ en_pc # "idle" =>
          /\ IsPrefixOf(en_fetched, FetchesThrough(en_scraper, NumYears))
          /\ IsPrefixOf(en_yielded, YieldsThrough(en_scraper, NumYears))
    /\ en_pc = "done" =>
          /\ en_fetched = FetchesThrough(en_scraper, NumYears)
          /\ en_yielded = YieldsThrough(en_scraper, NumYears)

\* the testimony scraper found no index page for the first year under
\* either template, the page of the last year under the second template
\* only, and has ended with the link of that page
C31_Witness ==
    /\ en_scraper = "testimony"
    /\ en_pc = "done"
    /\ ~YearHasIndex("testimony", 1)
    /\ en_world[IndexTemplates("testimony", NumYears)[1]] = "fail"
    /\ en_world[IndexTemplates("testimony", NumYears)[2]] = "ok"
    /\ Len(en_fetched) >= 4
    /\ en_yielded # <<>>
    /\ en_yielded[Len(en_yielded)] = DocUrl("testimony", NumYears)

\* C39: scrape_all called without a category list or with an empty one runs
\* the four categories in the order statement, minutes, speech, testimony;
\* called with a non-empty list it runs the listed categories in list order,
\* and what it returns has one entry per listed category.
C39_RunAllCategories ==
    LET listed == IF ra_request.given /\ Len(ra_request.list) > 0
                  THEN ra_request.list
                  ELSE <<"statement", "minutes", "speech", "testimony">>
    IN  /\ ra_pc # "idle" => IsPrefixOf(ra_ran, listed)
        /\ ra_pc = "raised" => ra_ran # <<>>
        /\ ra_pc = "returned" =>
              /\ ra_ran = listed
              /\ DOMAIN ra_results = {listed[i] : i \in DOMAIN listed}

\* scrape_all([]) has returned with the four categories run
C39_Witness ==
    /\ ra_request = [given |-> TRUE, list |-> <<>>]
    /\ ra_pc = "returned"
    /\ Len(ra_ran) = 4
    /\ Cardinality(DOMAIN ra_results) = 4
====
